---------------------------- MODULE Spec2Model ----------------------------
(***************************************************************************)
(* Session orchestrator of the voice assistant backend                     *)
(* (src/backend/main.py, src/backend/app/brain.py).                        *)
(*                                                                         *)
(* Text is modelled as a sequence of tokens: a word, or one of the         *)
(* punctuation tokens "," and ".".  Whitespace is the gap between two      *)
(* tokens, so the blank string is the empty sequence.  A token keeps its   *)
(* case ("Hey" and "hey" are different tokens); Lower models str.lower().  *)
(*                                                                         *)
(* The specifications share the variables:                                 *)
(*   Spec        the conversation turns (on_final / process_input), the    *)
(*               dispatch of a confirmed action and the device registry;   *)
(*   SpecTalk    the conversation turns alone, over more turns;            *)
(*   SpecFrames  the framed binary channel, the audio queue and the        *)
(*               relay's sender loop;                                      *)
(*   SpecHist    Conversation.add_user_message / add_assistant_message /   *)
(*               _trim on histories of every length up to the bound;       *)
(*   SpecSpeak   the speak() tasks of one session and the speech lock;     *)
(*   SpecRoute   two client sessions dispatching to the device registry    *)
(*               and the status updates of the device bridge;              *)
(*   SpecClose   the end of a client session and the relay's two loops.    *)
(***************************************************************************)
EXTENDS Integers, Sequences, FiniteSets, TLC

VARIABLES
    \* ---- Conversation (brain.py:96-152) ----
    messages,           \* list of [role, content]
    last_interaction,   \* time of the last recorded message / activation
    is_active,          \* activation flag
    pending_action,     \* None or a PendingAction
    \* ---- ws_phone locals (main.py:241-255) ----
    pending,            \* None or a PendingBinaryPayload
    latest_jpeg_frame,  \* None or the last accepted video payload
    audio_queue,        \* asyncio.Queue(maxsize=50) contents, head first
    audio_chunk_count,  \* number of accepted audio chunks
    partial_text,       \* accumulated deltas
    current_task,       \* per session: None or a TaskStatus
    tts_lock,           \* per session: the speak task holding it, 0 if free
    \* ---- module globals (main.py:37-39) ----
    connected_devices,        \* device_id -> connection or NoConn
    device_status_callbacks,  \* device_id -> session or NoCallback
    \* ---- tasks and environment ----
    now,                \* time.time()
    relay,              \* state of openai_transcription_worker
    turn_pc,            \* position of on_final: "idle" or "resolving"
    read_pc,            \* position of the read loop: "receive" or "put_wait"
    conn_state,         \* per device connection: "closed", "open", "lost"
    conn_device,        \* per device connection: its local device_id
    speak_tasks,        \* speak() tasks created, oldest first
    client_state,       \* per session: "new", "open" or "closed"
    sender_task,        \* the relay's sender(): "running", "cancelled", "failed"
    receiver_task,      \* the relay's receiver(): "running", "cancelled",
                        \* "ended", "failed"
    provider_ws,        \* the provider connection: "open", "closed" (by a
                        \* close handshake) or "broken"
    provider_events,    \* the events the provider has sent on it, in order
    events_read,        \* how many of them the receiver loop has taken
    transcript_log,     \* the transcript messages sent to the client
    http_current_task,  \* current_task of the HTTP bridge (server.py:40)
    http_background,    \* requests whose background task has not begun
    http_running,       \* requests whose run_task is executing its goal
    http_reply,         \* the replies to the POST /task requests, in order
    bridge_inbox,       \* per device connection: laptop_tasks the bridge has
                        \* received and not finished, oldest first
    \* ---- observation (history variables, never read by the program) ----
    turn,               \* the last on_final call: its locals, what it saw and sent
    client_log,         \* per session: how many messages speak tasks and
                        \* status callbacks have sent to the client, and
                        \* those the latest of these steps sent
    status_event,       \* the last status_update handled by ws_device
    frame,              \* the last read-loop iteration: what it saw and sent
    appended,           \* every message ever appended to the history
    forwarded,          \* chunks the sender loop forwarded to the provider
    nturns,             \* number of final transcripts delivered
    nappends            \* number of direct appends (SpecHist)

convVars  == <<messages, last_interaction, is_active, pending_action>>
frameVars == <<pending, latest_jpeg_frame, audio_queue, audio_chunk_count,
               read_pc, frame, forwarded>>
devVars   == <<connected_devices, device_status_callbacks, conn_state, conn_device>>
clientVars == <<client_state, client_log, tts_lock>>
loopVars  == <<sender_task, receiver_task, provider_ws>>
bridgeVars == <<bridge_inbox, status_event>>
eventVars == <<provider_events, events_read, transcript_log>>
httpVars == <<http_current_task, http_background, http_running, http_reply>>
vars == <<messages, last_interaction, is_active, pending_action, pending,
          latest_jpeg_frame, audio_queue, audio_chunk_count, partial_text,
          current_task, connected_devices, device_status_callbacks, now, relay,
          turn_pc, read_pc, conn_state, conn_device, speak_tasks, turn,
          frame, appended, forwarded, nturns, nappends, tts_lock, client_state,
          client_log, sender_task, receiver_task, provider_ws, bridge_inbox,
          status_event, provider_events, events_read, transcript_log,
          http_current_task, http_background, http_running, http_reply>>

-----------------------------------------------------------------------------
(* Program constants *)

MAX_HISTORY_TURNS == 10
CONVERSATION_TIMEOUT == 30
AUDIO_QUEUE_MAXSIZE == 50
DEBUG_EVERY == 50

(* Bounds of the model *)

MaxTurns == 2        \* final transcripts delivered in one run
MaxTime == 31        \* the clock stops advancing here
MaxTalkTurns == 4    \* final transcripts delivered in one run of SpecTalk
MaxAppends == 3      \* messages appended in one run of SpecHist
MaxChunks == 52      \* audio chunks accepted in one run of SpecFrames
MaxRouteTurns == 2   \* device actions dispatched in one run of SpecRoute
MaxCloseChunks == 2  \* audio chunks accepted in one run of SpecClose
MaxSpeakTurns == 1   \* device actions dispatched in one run of SpecSpeak

-----------------------------------------------------------------------------
(* Text *)

Punct == {",", "."}

\* str.lower() on one token
Lower(tok) ==
    CASE tok = "Hey" -> "hey"
      [] tok = "Yes" -> "yes"
      [] tok = "No" -> "no"
      [] OTHER -> tok

\* WAKE_PHRASES: r"\b<word>[,\s]+wink\b", in list order
WAKE_PHRASES == <<"hey", "hi", "okay", "ok">>

\* Where a match of WAKE_PHRASES[p] that starts at token 1 of s ends; 0 if none.
\* [,\s]+ is one or more of comma and whitespace: any run of "," tokens.
RECURSIVE WinkAfterCommas(_, _)
WinkAfterCommas(s, j) ==
    IF j > Len(s) THEN 0
    ELSE IF Lower(s[j]) = "wink" THEN j
    ELSE IF s[j] = "," THEN WinkAfterCommas(s, j + 1)
    ELSE 0

MatchEnd(s, p) ==
    IF Len(s) >= 2 /\ Lower(s[1]) = WAKE_PHRASES[p] THEN WinkAfterCommas(s, 2) ELSE 0

\* re.search(pattern, text_lower) for one pattern
SearchWake(s, p) ==
    \E i \in 1..Len(s) : MatchEnd(SubSeq(s, i, Len(s)), p) > 0

contains_wake_phrase(text) ==
    \E p \in 1..Len(WAKE_PHRASES) : SearchWake(text, p)

\* re.sub(pattern, "", text, flags=IGNORECASE): every non-overlapping match,
\* left to right
RECURSIVE SubWake(_, _)
SubWake(s, p) ==
    IF s = <<>> THEN <<>>
    ELSE IF MatchEnd(s, p) > 0 THEN SubWake(SubSeq(s, MatchEnd(s, p) + 1, Len(s)), p)
    ELSE <<Head(s)>> \o SubWake(Tail(s), p)

\* str.strip(" ,.")
RECURSIVE LStrip(_)
LStrip(s) ==
    IF s # <<>> /\ Head(s) \in Punct THEN LStrip(Tail(s)) ELSE s

RECURSIVE RStrip(_)
RStrip(s) ==
    IF s # <<>> /\ s[Len(s)] \in Punct THEN RStrip(SubSeq(s, 1, Len(s) - 1)) ELSE s

strip_wake_phrase(text) ==
    RStrip(LStrip(SubWake(SubWake(SubWake(SubWake(text, 1), 2), 3), 4)))

CONFIRMATION_PATTERNS ==
    { <<"yes">>, <<"yeah">>, <<"yep">>, <<"yup">>, <<"sure">>, <<"ok">>,
      <<"okay">>, <<"do", "it">>, <<"go", "ahead">>, <<"please">>,
      <<"go", "for", "it">>, <<"sounds", "good">>, <<"let's", "do", "it">>,
      <<"absolutely">> }

DENIAL_PATTERNS ==
    { <<"no">>, <<"nope">>, <<"nah">>, <<"nevermind">>, <<"never", "mind">>,
      <<"cancel">>, <<"don't">>, <<"stop">>, <<"wait">>, <<"hold", "on">> }

\* re.search(r"^<phrase>\b", text.lower().strip())
StartsWith(text, phrase) ==
    /\ Len(phrase) <= Len(text)
    /\ \A i \in 1..Len(phrase) : Lower(text[i]) = phrase[i]

is_confirmation(text) ==
    \E phrase \in CONFIRMATION_PATTERNS : StartsWith(text, phrase)

is_denial(text) ==
    \E phrase \in DENIAL_PATTERNS : StartsWith(text, phrase)

\* `not s.strip()`
IsBlank(text) == text = <<>>

-----------------------------------------------------------------------------
(* Values *)

None == [kind |-> "None"]

PendingAction(device_id, goal, task_type) ==
    [kind |-> "PendingAction", device_id |-> device_id, goal |-> goal,
     task_type |-> task_type]

TaskStatus(goal, device_id, status, message) ==
    [kind |-> "TaskStatus", goal |-> goal, device_id |-> device_id,
     status |-> status, message |-> message]

Message(role, content) == [role |-> role, content |-> content]

\* A message sent on a websocket: `to` is "client" or a device connection.
Sent(to, type, state, text) ==
    [to |-> to, type |-> type, state |-> state, text |-> text]

StatusMsg(state, text) == Sent("client", "laptop_status", state, text)

DeviceIds == {"laptop-1", "laptop-2"}
Conns == {"c1", "c2"}
\* the connection of the one device bridge of Spec, SpecRoute and SpecSpeak
OneBridge == {"c1"}
NoConn == "NoConn"
NoCallback == "NoCallback"
Session == "s1"
Sessions == {"s1", "s2"}

\* asyncio.create_task(speak(text)) in the session `session`: pc is the
\* position of the task, left the audio chunks it still has to send, marks
\* the start and end markers it has sent to the client (observation)
SpeakTask(session, text) ==
    [session |-> session, text |-> text, pc |-> "created", left |-> 0,
     marks |-> <<>>]

\* A laptop_task as the bridge holds it; origin is the session whose
\* on_final sent it (the task itself does not carry it)
BridgeTask(goal, origin) == [goal |-> goal, origin |-> origin, started |-> FALSE]

\* the client log after the messages msgs were sent
logged(log, msgs) ==
    IF msgs = <<>> THEN log ELSE [n |-> log.n + Len(msgs), last |-> msgs]

NoStatusEvent ==
    [n |-> 0, status |-> "", origin |-> "none", to |-> NoCallback,
     delivered |-> FALSE]

Goals == {"open chrome"}

YES_ANSWER == <<"Yes?">>
ON_IT == <<"On it.">>
NEVERMIND == <<"Okay, nevermind.">>

\* Final transcripts the provider may deliver
Transcripts ==
    { <<>>,
      <<"hey", "wink">>,
      <<"Hey", ",", "wink", ".">>,
      <<"Hey", ",", "wink", ",", "Yes", "please">>,
      <<"hey", "wink", ",", "what's", "two", "plus", "two">>,
      <<"yeah", "do", "it">>,
      <<"no">>,
      <<"hey", "wink", ",", "no">>,
      <<"actually", "what", "time", "is", "it">> }

\* What process_input makes of the provider's reply (brain.py:411-495):
\* an exception, a plain answer, an answer with a proposed_action, or an
\* answer with the fields of an action to run at once (device_id, goal and
\* task_type beside "answer", the fields of DeviceActionResponse) and no
\* "proposed_action" key.
ResolverOutcomes ==
    { [kind |-> "raise", answer |-> <<>>, action |-> None],
      [kind |-> "answer", answer |-> <<"Four.">>, action |-> None],
      [kind |-> "action", answer |-> <<"Opening Chrome.">>,
       action |-> PendingAction("laptop-1", "open chrome", "laptop")] }
    \cup
    { [kind |-> "proposed", answer |-> <<"Want me to do that?">>,
       action |-> PendingAction(d, g, "laptop")] : d \in DeviceIds, g \in Goals }

-----------------------------------------------------------------------------
(* Conversation (brain.py:96-152), as operators on the record of its fields *)

Conv ==
    [messages |-> messages, last_interaction |-> last_interaction,
     is_active |-> is_active, pending_action |-> pending_action]

\* _trim slicing from the wrong end
TrimNewest(msgs) ==
    IF Len(msgs) > MAX_HISTORY_TURNS * 2
    THEN SubSeq(msgs, 1, MAX_HISTORY_TURNS * 2)
    ELSE msgs

\* Conversation._trim
trim(msgs) ==
    IF Len(msgs) > MAX_HISTORY_TURNS * 2
    THEN SubSeq(msgs, Len(msgs) - MAX_HISTORY_TURNS * 2 + 1, Len(msgs))
    ELSE msgs

add_user_message(c, content, t) ==
    [c EXCEPT !.messages = trim(Append(@, Message("user", content))),
              !.last_interaction = t]

add_assistant_message(c, content, t) ==
    [c EXCEPT !.messages = trim(Append(@, Message("assistant", content))),
              !.last_interaction = t]

\* check_active without the flag and the timeout
CheckActiveAlways(c, t) == TRUE

\* Conversation.check_active: the value returned
check_active(c, t) ==
    IF ~c.is_active THEN FALSE
    ELSE IF t - c.last_interaction > CONVERSATION_TIMEOUT THEN FALSE
    ELSE TRUE

\* check_active leaving the flag and the pending action as they are
AfterCheckKeepsActive(c, t) == c

\* check_active lowering the flag on a timeout and keeping the pending action
AfterCheckKeepsPending(c, t) ==
    IF c.is_active /\ t - c.last_interaction > CONVERSATION_TIMEOUT
    THEN [c EXCEPT !.is_active = FALSE]
    ELSE c

\* Conversation.check_active: the conversation it leaves
after_check_active(c, t) ==
    IF c.is_active /\ t - c.last_interaction > CONVERSATION_TIMEOUT
    THEN [c EXCEPT !.is_active = FALSE, !.pending_action = None]
    ELSE c

activate(c, t) == [c EXCEPT !.is_active = TRUE, !.last_interaction = t]

set_pending_action(c, action) == [c EXCEPT !.pending_action = action]

clear_pending_action(c) == [c EXCEPT !.pending_action = None]

-----------------------------------------------------------------------------
(* process_input (brain.py:309-495), in two parts: up to the request to the  *)
(* intent model, and from its reply.  A response is                          *)
(*   [conv, result, branch, answer, action, clean]                           *)
(* result: "ignored" (IgnoredResponse), "simple" (SimpleResponse),           *)
(* "device_action" (DeviceActionResponse), "await" (the request is in        *)
(* flight) or "raised" (an exception leaves process_input).                  *)

Response(c, result, branch, answer, action, clean) ==
    [conv |-> c, result |-> result, branch |-> branch, answer |-> answer,
     action |-> action, clean |-> clean]

\* the turn recorded with the answer before the transcript
RecordAnswerFirst(c, transcript, answer, t) ==
    add_user_message(add_assistant_message(c, answer, t), transcript, t)

\* the turn recorded without the answer
RecordUserOnly(c, transcript, answer, t) ==
    add_user_message(c, transcript, t)

\* brain.py:346-352 and every later reply: both messages are recorded
record_turn(c, transcript, answer, t) ==
    add_assistant_message(add_user_message(c, transcript, t), answer, t)

\* the pending branch without the clear_pending_action of brain.py:382
PendingBranchOtherKeeps(c, transcript, clean, t) ==
    IF is_confirmation(clean)
    THEN Response(clear_pending_action(record_turn(c, transcript, ON_IT, t)),
                  "device_action", "confirm", ON_IT, c.pending_action, clean)
    ELSE IF is_denial(clean)
    THEN Response(clear_pending_action(record_turn(c, transcript, NEVERMIND, t)),
                  "simple", "deny", NEVERMIND, None, clean)
    ELSE Response(c, "await", "resolve", <<>>, None, clean)

\* the pending branch without the clear_pending_action of brain.py:378
PendingBranchDenialKeeps(c, transcript, clean, t) ==
    IF is_confirmation(clean)
    THEN Response(clear_pending_action(record_turn(c, transcript, ON_IT, t)),
                  "device_action", "confirm", ON_IT, c.pending_action, clean)
    ELSE IF is_denial(clean)
    THEN Response(record_turn(c, transcript, NEVERMIND, t),
                  "simple", "deny", NEVERMIND, None, clean)
    ELSE Response(clear_pending_action(c), "await", "resolve", <<>>, None, clean)

\* brain.py:354-382, with a pending action present
pending_branch(c, transcript, clean, t) ==
    IF is_confirmation(clean)
    THEN Response(clear_pending_action(record_turn(c, transcript, ON_IT, t)),
                  "device_action", "confirm", ON_IT, c.pending_action, clean)
    ELSE IF is_denial(clean)
    THEN Response(clear_pending_action(record_turn(c, transcript, NEVERMIND, t)),
                  "simple", "deny", NEVERMIND, None, clean)
    ELSE Response(clear_pending_action(c), "await", "resolve", <<>>, None, clean)

\* process_input with the denial test made before the pending-action test
ProcessInputDenialFirst(c, transcript, t) ==
    LET has_wake_phrase == contains_wake_phrase(transcript)
        active == check_active(c, t)
        c1 == after_check_active(c, t)
        c2 == IF has_wake_phrase THEN activate(c1, t) ELSE c1
        clean_transcript ==
            IF has_wake_phrase THEN strip_wake_phrase(transcript) ELSE transcript
    IN  IF ~has_wake_phrase /\ ~active
        THEN Response(c1, "ignored", "none", <<>>, None, <<>>)
        ELSE IF IsBlank(clean_transcript)
        THEN Response(record_turn(c2, transcript, YES_ANSWER, t),
                      "simple", "ack", YES_ANSWER, None, clean_transcript)
        ELSE IF is_denial(clean_transcript)
        THEN Response(clear_pending_action(record_turn(c2, transcript, NEVERMIND, t)),
                      "simple", "deny", NEVERMIND, None, clean_transcript)
        ELSE IF c2.pending_action # None
        THEN pending_branch(c2, transcript, clean_transcript, t)
        ELSE Response(c2, "await", "resolve", <<>>, None, clean_transcript)

\* process_input without the acknowledgment of brain.py:347-352
ProcessInputNoAck(c, transcript, t) ==
    LET has_wake_phrase == contains_wake_phrase(transcript)
        active == check_active(c, t)
        c1 == after_check_active(c, t)
        c2 == IF has_wake_phrase THEN activate(c1, t) ELSE c1
        clean_transcript ==
            IF has_wake_phrase THEN strip_wake_phrase(transcript) ELSE transcript
    IN  IF ~has_wake_phrase /\ ~active
        THEN Response(c1, "ignored", "none", <<>>, None, <<>>)
        ELSE IF c2.pending_action # None
        THEN pending_branch(c2, transcript, clean_transcript, t)
        ELSE Response(c2, "await", "resolve", <<>>, None, clean_transcript)

\* brain.py:331-409
process_input(c, transcript, t) ==
    LET has_wake_phrase == contains_wake_phrase(transcript)
        active == check_active(c, t)
        c1 == after_check_active(c, t)
        c2 == IF has_wake_phrase THEN activate(c1, t) ELSE c1
        clean_transcript ==
            IF has_wake_phrase THEN strip_wake_phrase(transcript) ELSE transcript
    IN  IF ~has_wake_phrase /\ ~active
        THEN Response(c1, "ignored", "none", <<>>, None, <<>>)
        ELSE IF IsBlank(clean_transcript)
        THEN Response(record_turn(c2, transcript, YES_ANSWER, t),
                      "simple", "ack", YES_ANSWER, None, clean_transcript)
        ELSE IF c2.pending_action # None
        THEN pending_branch(c2, transcript, clean_transcript, t)
        ELSE Response(c2, "await", "resolve", <<>>, None, clean_transcript)

\* the reply handling returning a proposed action as a device action
ProcessReplyExecutes(c, transcript, clean, outcome, t) ==
    CASE outcome.kind = "raise" ->
            Response(c, "raised", "resolve", <<>>, None, clean)
      [] outcome.kind = "proposed" ->
            Response(record_turn(set_pending_action(c, outcome.action),
                                 transcript, outcome.answer, t),
                     "device_action", "resolve", outcome.answer, outcome.action,
                     clean)
      [] OTHER ->
            Response(record_turn(c, transcript, outcome.answer, t),
                     "simple", "resolve", outcome.answer, None, clean)

\* brain.py:411-495: the reply of the intent model is handled
process_reply(c, transcript, clean, outcome, t) ==
    CASE outcome.kind = "raise" ->
            Response(c, "raised", "resolve", <<>>, None, clean)
      [] outcome.kind = "proposed" ->
            Response(record_turn(set_pending_action(c, outcome.action),
                                 transcript, outcome.answer, t),
                     "simple", "resolve", outcome.answer, None, clean)
      [] OTHER ->
            Response(record_turn(c, transcript, outcome.answer, t),
                     "simple", "resolve", outcome.answer, None, clean)

-----------------------------------------------------------------------------
(* send_task_to_device (main.py:468-484):                                    *)
(* [ok, callbacks, sent] from the registry as it is at the call              *)

\* send_task_to_device sending the goal twice
SendTwice(device_id, goal, on_status) ==
    IF connected_devices[device_id] = NoConn
    THEN [ok |-> FALSE, callbacks |-> device_status_callbacks, sent |-> <<>>]
    ELSE LET ws == connected_devices[device_id]
         IN  [ok |-> conn_state[ws] = "open",
              callbacks |-> [device_status_callbacks EXCEPT ![device_id] = on_status],
              sent |-> IF conn_state[ws] = "open"
                       THEN <<Sent(ws, "laptop_task", "", <<goal>>),
                              Sent(ws, "laptop_task", "", <<goal>>)>>
                       ELSE <<>>]

\* send_task_to_device finding every device id in the registry
SendUnregisteredOk(device_id, goal, on_status) ==
    IF connected_devices[device_id] = NoConn
    THEN [ok |-> TRUE, callbacks |-> device_status_callbacks, sent |-> <<>>]
    ELSE LET ws == connected_devices[device_id]
         IN  [ok |-> conn_state[ws] = "open",
              callbacks |-> [device_status_callbacks EXCEPT ![device_id] = on_status],
              sent |-> IF conn_state[ws] = "open"
                       THEN <<Sent(ws, "laptop_task", "", <<goal>>)>>
                       ELSE <<>>]

\* send_task_to_device trusting the handle it finds in the registry
SendTrustsHandle(device_id, goal, on_status) ==
    IF connected_devices[device_id] = NoConn
    THEN [ok |-> FALSE, callbacks |-> device_status_callbacks, sent |-> <<>>]
    ELSE LET ws == connected_devices[device_id]
         IN  [ok |-> TRUE,
              callbacks |-> [device_status_callbacks EXCEPT ![device_id] = on_status],
              sent |-> <<Sent(ws, "laptop_task", "", <<goal>>)>>]

\* on_status is the session whose on_task_status closure is registered
send_task_to_device(device_id, goal, on_status) ==
    IF connected_devices[device_id] = NoConn
    THEN [ok |-> FALSE, callbacks |-> device_status_callbacks, sent |-> <<>>]
    ELSE LET ws == connected_devices[device_id]
         IN  [ok |-> conn_state[ws] = "open",
              callbacks |-> [device_status_callbacks EXCEPT ![device_id] = on_status],
              sent |-> IF conn_state[ws] = "open"
                       THEN <<Sent(ws, "laptop_task", "", <<goal>>)>>
                       ELSE <<>>]

\* main.py:312-344 in session s for the device action a: the new TaskStatus,
\* the callback table, and what goes to the client and to the device
dispatch(s, a) ==
    LET d == send_task_to_device(a.device_id, a.goal, s)
    IN  [ok |-> d.ok,
         task |-> IF d.ok
                  THEN TaskStatus(a.goal, a.device_id, "queued", "")
                  ELSE TaskStatus(a.goal, a.device_id, "failed",
                                  "Device not connected"),
         callbacks |-> d.callbacks,
         queued |-> <<StatusMsg("queued", <<a.device_id, a.goal>>)>>,
         to_device |-> d.sent,
         warning |-> IF d.ok THEN <<>>
                     ELSE <<StatusMsg("warning", <<a.device_id, "not connected">>)>>]

\* The bridge behind each connection receives what was sent to it
RECURSIVE received(_, _, _)
received(inbox, sent, origin) ==
    IF sent = <<>> THEN inbox
    ELSE received([inbox EXCEPT ![Head(sent).to] =
                       Append(@, BridgeTask(Head(sent).text[1], origin))],
                  Tail(sent), origin)

-----------------------------------------------------------------------------
(* Initial state: ws_phone has accepted the client, greeted it and started   *)
(* the transcription relay (main.py:239-358); no device is connected.        *)

NoDevice == "NoDevice"

NoTurn ==
    [n |-> 0, transcript |-> <<>>, wake |-> FALSE, clean |-> <<>>,
     pre_active |-> FALSE, pre_elapsed |-> 0, pre_pending |-> None,
     pre_messages |-> <<>>, result |-> "none", branch |-> "none",
     answer |-> <<>>, action |-> None, resolver_calls |-> 0,
     resolver_input |-> <<>>, resolved |-> <<>>, proposed |-> None,
     immediate |-> None,
     sent |-> <<>>, speaks |-> <<>>,
     ws |-> NoConn, ws_open |-> FALSE, dispatch_ok |-> FALSE, task |-> None]

NoFrame ==
    [kind |-> "none", length |-> 0, was_full |-> FALSE, result |-> "none",
     payload |-> None, sent |-> <<>>]

\* everything but the history and the activation flag
InitSession ==
    /\ last_interaction = 0
    /\ pending_action = None
    /\ pending = None
    /\ latest_jpeg_frame = None
    /\ audio_queue = <<>>
    /\ audio_chunk_count = 0
    /\ partial_text = <<>>
    /\ current_task = [s \in Sessions |-> None]
    /\ tts_lock = [s \in Sessions |-> 0]
    /\ client_state = [s \in Sessions |-> IF s = Session THEN "open" ELSE "new"]
    /\ client_log = [s \in Sessions |-> [n |-> 0, last |-> <<>>]]
    /\ sender_task = "running"
    /\ receiver_task = "running"
    /\ provider_ws = "open"
    /\ bridge_inbox = [c \in Conns |-> <<>>]
    /\ status_event = NoStatusEvent
    /\ connected_devices = [d \in DeviceIds |-> NoConn]
    /\ device_status_callbacks = [d \in DeviceIds |-> NoCallback]
    /\ now = 0
    /\ relay = "running"
    /\ turn_pc = "idle"
    /\ read_pc = "receive"
    /\ conn_state = [c \in Conns |-> "closed"]
    /\ conn_device = [c \in Conns |-> NoDevice]
    /\ speak_tasks = <<>>
    /\ turn = NoTurn
    /\ frame = NoFrame
    /\ forwarded = <<>>
    /\ nturns = 0
    /\ nappends = 0
    /\ provider_events = <<>>
    /\ events_read = 0
    /\ transcript_log = <<>>
    /\ http_current_task = None
    /\ http_background = {}
    /\ http_running = {}
    /\ http_reply = <<>>

InitCommon ==
    /\ InitSession
    /\ is_active = FALSE

Init ==
    /\ InitCommon
    /\ messages = <<>>
    /\ appended = <<>>

-----------------------------------------------------------------------------
(* on_final (main.py:283-344)                                                *)

SetConv(c) ==
    /\ messages' = c.messages
    /\ last_interaction' = c.last_interaction
    /\ is_active' = c.is_active
    /\ pending_action' = c.pending_action

\* main.py:304-344 for the response r of process_input; tr is the turn so far
Respond(r, tr) ==
    LET seen == [tr EXCEPT !.result = r.result, !.branch = r.branch,
                           !.answer = r.answer, !.action = r.action,
                           !.clean = r.clean]
        reply == <<Sent("client", "assistant_text", "", r.answer)>>
    IN  CASE r.result = "ignored" ->
                /\ turn' = seen
                /\ UNCHANGED <<speak_tasks, current_task, device_status_callbacks,
                               relay, appended, loopVars, bridge_inbox>>
          [] r.result = "raised" ->
                \* the exception leaves on_final and the receiver loop: the
                \* worker cancels the sender, reports and re-raises
                \* (main.py:221-234), _task_done reports again (main.py:348-351)
                /\ relay' = "crashed"
                /\ receiver_task' = "failed"
                /\ sender_task' = "cancelled"
                /\ provider_ws' = "closed"
                /\ turn' = [seen EXCEPT !.sent = @ \o
                        <<StatusMsg("error", <<"Realtime worker crashed">>),
                          StatusMsg("error", <<"Transcription task crashed">>)>>]
                /\ UNCHANGED <<speak_tasks, current_task, device_status_callbacks,
                               appended, bridge_inbox>>
          [] r.result = "simple" ->
                /\ speak_tasks' = Append(speak_tasks, SpeakTask(Session, r.answer))
                /\ appended' = appended \o <<Message("user", tr.transcript),
                                             Message("assistant", r.answer)>>
                /\ turn' = [seen EXCEPT !.sent = @ \o reply,
                                        !.speaks = <<r.answer>>]
                /\ UNCHANGED <<current_task, device_status_callbacks, relay,
                               loopVars, bridge_inbox>>
          [] r.result = "device_action" ->
                LET a == r.action
                    d == dispatch(Session, a)
                IN  /\ speak_tasks' = Append(speak_tasks, SpeakTask(Session, r.answer))
                    /\ appended' = appended \o <<Message("user", tr.transcript),
                                                 Message("assistant", r.answer)>>
                    /\ device_status_callbacks' = d.callbacks
                    /\ current_task' = [current_task EXCEPT ![Session] = d.task]
                    /\ bridge_inbox' = received(bridge_inbox, d.to_device, Session)
                    /\ turn' = [seen EXCEPT
                          !.sent = @ \o reply \o d.queued \o d.to_device
                                     \o d.warning,
                          !.speaks = <<r.answer>>,
                          !.ws = connected_devices[a.device_id],
                          !.ws_open = /\ connected_devices[a.device_id] # NoConn
                                      /\ conn_state[connected_devices[a.device_id]] = "open",
                          !.dispatch_ok = d.ok,
                          !.task = d.task]
                    /\ UNCHANGED <<relay, loopVars>>

\* The receiver loop delivers a final transcript (main.py:211-213) and
\* on_final runs until it returns or awaits the intent model.  max_turns
\* caps the number of transcripts of one run.
on_final(transcript, max_turns) ==
    /\ relay = "running"
    /\ turn_pc = "idle"
    /\ nturns < max_turns
    /\ nturns' = nturns + 1
    /\ partial_text' = <<>>
    /\ LET tr == [NoTurn EXCEPT
                    !.n = nturns + 1, !.transcript = transcript,
                    !.wake = contains_wake_phrase(transcript),
                    !.pre_active = is_active,
                    !.pre_elapsed = now - last_interaction,
                    !.pre_pending = pending_action,
                    !.pre_messages = messages,
                    !.sent = <<Sent("client", "final_transcript", "", transcript)>>]
       IN  IF IsBlank(transcript)
           THEN /\ turn' = [tr EXCEPT !.result = "blank"]
                /\ UNCHANGED <<convVars, turn_pc, speak_tasks, current_task,
                               device_status_callbacks, relay, appended,
                               loopVars, bridge_inbox>>
           ELSE LET r == process_input(Conv, transcript, now)
                IN  /\ SetConv(r.conv)
                    /\ IF r.result = "await"
                       THEN /\ turn_pc' = "resolving"
                            /\ turn' = [tr EXCEPT !.result = "await",
                                          !.branch = r.branch, !.clean = r.clean,
                                          !.resolver_calls = 1,
                                          !.resolver_input = r.clean]
                            /\ UNCHANGED <<speak_tasks, current_task,
                                           device_status_callbacks, relay, appended,
                                           loopVars, bridge_inbox>>
                       ELSE /\ turn_pc' = "idle"
                            /\ Respond(r, tr)
    /\ UNCHANGED <<clientVars, status_event, frameVars, connected_devices, conn_state, conn_device, now,
                   nappends>>

\* on_final for a transcript handed in directly: no provider event is taken
OnFinal(transcript, max_turns) ==
    /\ on_final(transcript, max_turns)
    /\ UNCHANGED <<eventVars, httpVars>>

\* The request to the intent model ends and on_final runs to its end.
ResolverReturn(outcome) ==
    /\ relay = "running"
    /\ turn_pc = "resolving"
    /\ turn_pc' = "idle"
    /\ LET r == process_reply(Conv, turn.transcript, turn.clean, outcome, now)
       IN  /\ SetConv(r.conv)
           /\ Respond(r, [turn EXCEPT
                  !.resolved = outcome.answer,
                  !.proposed = IF outcome.kind = "proposed"
                               THEN outcome.action ELSE None,
                  !.immediate = IF outcome.kind = "action"
                                THEN outcome.action ELSE None])
    /\ UNCHANGED <<clientVars, status_event, frameVars, connected_devices, conn_state, conn_device, now,
                   partial_text, nturns, nappends, eventVars, httpVars>>

\* time.time() advances
Tick(d) ==
    /\ now + d <= MaxTime
    /\ now' = now + d
    /\ UNCHANGED <<clientVars, loopVars, bridgeVars, convVars, frameVars, devVars, partial_text, current_task,
                   relay, turn_pc, speak_tasks, turn, appended, nturns, nappends, eventVars, httpVars>>

-----------------------------------------------------------------------------
(* ws_device (main.py:417-465)                                               *)

\* websocket.accept() (main.py:420).  The connection is a new websocket
\* object: no registry entry holds it.
DeviceConnect(c) ==
    /\ conn_state[c] = "closed"
    /\ \A d \in DeviceIds : connected_devices[d] # c
    /\ conn_state' = [conn_state EXCEPT ![c] = "open"]
    /\ conn_device' = [conn_device EXCEPT ![c] = NoDevice]
    /\ UNCHANGED <<clientVars, loopVars, bridgeVars, convVars, frameVars, connected_devices, device_status_callbacks,
                   partial_text, current_task, now, relay, turn_pc, speak_tasks,
                   turn, appended, nturns, nappends, eventVars, httpVars>>

\* device_register (main.py:435-444)
DeviceRegister(c, device_id) ==
    /\ conn_state[c] = "open"
    /\ conn_device' = [conn_device EXCEPT ![c] = device_id]
    /\ connected_devices' = [connected_devices EXCEPT ![device_id] = c]
    /\ UNCHANGED <<clientVars, loopVars, bridgeVars, convVars, frameVars, conn_state, device_status_callbacks,
                   partial_text, current_task, now, relay, turn_pc, speak_tasks,
                   turn, appended, nturns, nappends, eventVars, httpVars>>

\* The peer goes away; the handler has not yet been resumed.
DeviceLost(c) ==
    /\ conn_state[c] = "open"
    /\ conn_state' = [conn_state EXCEPT ![c] = "lost"]
    /\ bridge_inbox' = [bridge_inbox EXCEPT ![c] = <<>>]
    /\ UNCHANGED <<clientVars, loopVars, status_event, convVars, frameVars,
                   connected_devices, device_status_callbacks,
                   conn_device, partial_text, current_task, now, relay, turn_pc,
                   speak_tasks, turn, appended, nturns, nappends, eventVars, httpVars>>

\* the finally block marking the task of the registered callback failed
DisconnectFailsTask(c) ==
    /\ conn_state[c] = "lost"
    /\ conn_state' = [conn_state EXCEPT ![c] = "closed"]
    /\ LET device_id == conn_device[c]
       IN  IF device_id # NoDevice
           THEN /\ connected_devices' = [connected_devices EXCEPT ![device_id] = NoConn]
                /\ device_status_callbacks' =
                      [device_status_callbacks EXCEPT ![device_id] = NoCallback]
                /\ current_task' =
                      [s \in Sessions |->
                          IF device_status_callbacks[device_id] = s
                             /\ current_task[s] # None
                          THEN [current_task[s] EXCEPT !.status = "failed"]
                          ELSE current_task[s]]
           ELSE UNCHANGED <<connected_devices, device_status_callbacks, current_task>>
    /\ conn_device' = [conn_device EXCEPT ![c] = NoDevice]
    /\ UNCHANGED <<clientVars, loopVars, bridgeVars, convVars, frameVars, partial_text, now, relay,
                   turn_pc, speak_tasks, turn, appended, nturns, nappends, eventVars, httpVars>>

\* WebSocketDisconnect reaches the handler: its finally block (main.py:460-465)
DeviceDisconnect(c) ==
    /\ conn_state[c] = "lost"
    /\ conn_state' = [conn_state EXCEPT ![c] = "closed"]
    /\ LET device_id == conn_device[c]
       IN  IF device_id # NoDevice
           THEN /\ connected_devices' = [connected_devices EXCEPT ![device_id] = NoConn]
                /\ device_status_callbacks' =
                      [device_status_callbacks EXCEPT ![device_id] = NoCallback]
           ELSE UNCHANGED <<connected_devices, device_status_callbacks>>
    /\ conn_device' = [conn_device EXCEPT ![c] = NoDevice]
    /\ UNCHANGED <<clientVars, loopVars, bridgeVars, convVars, frameVars, partial_text, current_task, now, relay,
                   turn_pc, speak_tasks, turn, appended, nturns, nappends, eventVars, httpVars>>

TickSteps == {15, 16}

\* The device ids that device bridges announce in Spec; the intent model may
\* name any of DeviceIds.
Registering == {"laptop-1"}

Next ==
    \/ \E transcript \in Transcripts : OnFinal(transcript, MaxTurns)
    \/ \E outcome \in ResolverOutcomes : ResolverReturn(outcome)
    \/ \E d \in TickSteps : Tick(d)
    \/ \E c \in OneBridge : DeviceConnect(c)
    \/ \E c \in OneBridge, device_id \in Registering : DeviceRegister(c, device_id)
    \/ \E c \in OneBridge : DeviceLost(c)
    \/ \E c \in OneBridge : DeviceDisconnect(c)

Spec == Init /\ [][Next]_vars

\* The conversation alone, over more turns: no device connects and the
\* intent model answers or fails, so no action is ever proposed.
TalkTranscripts ==
    { <<"hey", "wink">>, <<"no">>, <<"hey", "wink", ",", "no">> }

TalkOutcomes == { o \in ResolverOutcomes : o.kind \in {"raise", "answer"} }

NextTalk ==
    \/ \E transcript \in TalkTranscripts : OnFinal(transcript, MaxTalkTurns)
    \/ \E outcome \in TalkOutcomes : ResolverReturn(outcome)
    \/ \E d \in TickSteps : Tick(d)

SpecTalk == Init /\ [][NextTalk]_vars

\* The conversation turns of a session that has had MAX_HISTORY_TURNS - 1 or
\* MAX_HISTORY_TURNS turns already, the last of them at time 0: the history
\* holds their messages, the conversation is active, and the next turns
\* reach the retention bound.  nturns, turn and speak_tasks cover the turns
\* from here on.
MaxLongTurns == 2    \* final transcripts delivered in one run of SpecLong

LongHistories == {MAX_HISTORY_TURNS * 2 - 2, MAX_HISTORY_TURNS * 2}

InitLong ==
    /\ InitSession
    /\ is_active = TRUE
    /\ \E n \in LongHistories :
          messages = [i \in 1..n |->
                         Message(IF i % 2 = 1 THEN "user" ELSE "assistant",
                                 <<ToString(i)>>)]
    /\ appended = messages

NextLong ==
    \/ \E transcript \in Transcripts : OnFinal(transcript, MaxLongTurns)
    \/ \E outcome \in ResolverOutcomes : ResolverReturn(outcome)
    \/ \E d \in TickSteps : Tick(d)

SpecLong == InitLong /\ [][NextLong]_vars

-----------------------------------------------------------------------------
(* The framed binary channel and the audio queue: the read loop of ws_phone  *)
(* (main.py:360-405) and the sender loop of the relay (main.py:185-189).     *)
(* A binary payload is [kind, length, chunk]: its byte length and, for an    *)
(* accepted audio chunk, its number in arrival order (0 otherwise).          *)

PendingBinaryPayload(payload_type, expected_byte_length) ==
    [kind |-> "PendingBinaryPayload", payload_type |-> payload_type,
     expected_byte_length |-> expected_byte_length]

Payload(length, chunk) == [kind |-> "bytes", length |-> length, chunk |-> chunk]

\* Byte lengths of the binary frames the client sends
ByteLengths == {1, 2}

\* Text frames.  json: json.loads() accepts the text; object: the value it
\* returns is a JSON object (a dict, which has .get); numeric: int() accepts
\* the byte_length (a number, a numeric string or nothing), whose value is
\* then byte_length.  Audio chunks are declared with one length, video
\* frames with either.
Envelope(json, object, type, numeric, byte_length) ==
    [json |-> json, object |-> object, type |-> type, numeric |-> numeric,
     byte_length |-> byte_length]

Envelopes ==
    { Envelope(FALSE, FALSE, "", TRUE, 0),
      Envelope(TRUE, FALSE, "", TRUE, 0),
      Envelope(TRUE, TRUE, "stop", TRUE, 0),
      Envelope(TRUE, TRUE, "ping", TRUE, 0),
      Envelope(TRUE, TRUE, "pcm_audio", TRUE, 2),
      Envelope(TRUE, TRUE, "pcm_audio", FALSE, 0) }
    \cup
    { Envelope(TRUE, TRUE, "video_frame", TRUE, n) : n \in ByteLengths }

\* main.py:364-376: what the parsing of a text frame comes to
parse(envelope) ==
    IF ~envelope.json THEN "skipped"                \* JSONDecodeError, caught
    ELSE IF ~envelope.object THEN "raised"           \* envelope.get: AttributeError
    ELSE IF envelope.type \in {"pcm_audio", "video_frame"}
    THEN IF envelope.numeric THEN "declared"
         ELSE "raised"                               \* int(): ValueError, TypeError
    ELSE IF envelope.type = "stop" THEN "stop"
    ELSE "skipped"

\* asyncio.Queue.full()
full(q) == Len(q) >= AUDIO_QUEUE_MAXSIZE

\* the push without the eviction of main.py:400-402
PushNoEvict(q, payload) ==
    IF Len(q) < AUDIO_QUEUE_MAXSIZE
    THEN [queue |-> Append(q, payload), blocked |-> FALSE]
    ELSE [queue |-> q, blocked |-> TRUE]

\* the push evicting the newest chunk of a full queue
PushEvictNewest(q, payload) ==
    LET q1 == IF full(q) THEN SubSeq(q, 1, Len(q) - 1) ELSE q
    IN  IF Len(q1) < AUDIO_QUEUE_MAXSIZE
        THEN [queue |-> Append(q1, payload), blocked |-> FALSE]
        ELSE [queue |-> q1, blocked |-> TRUE]

\* main.py:400-403: get_nowait() when full, then put(); put() suspends the
\* caller while the queue is full
push_audio(q, payload) ==
    LET q1 == IF full(q) THEN Tail(q) ELSE q
    IN  IF Len(q1) < AUDIO_QUEUE_MAXSIZE
        THEN [queue |-> Append(q1, payload), blocked |-> FALSE]
        ELSE [queue |-> q1, blocked |-> TRUE]

Handled(p, latest, q, count, sent, result, blocked, payload) ==
    [pending |-> p, latest |-> latest, queue |-> q, count |-> count,
     sent |-> sent, result |-> result, blocked |-> blocked, payload |-> payload]

\* the binary branch without the length check of main.py:386-389
BytesNoLengthCheck(p, latest, q, count, length) ==
    IF p = None
    THEN Handled(p, latest, q, count, <<>>, "dropped", FALSE, None)
    ELSE IF p.payload_type = "video_frame"
    THEN Handled(None, Payload(length, 0), q, count, <<>>, "video", FALSE,
                 Payload(length, 0))
    ELSE LET r == push_audio(q, Payload(length, count + 1))
         IN  Handled(None, latest, r.queue, count + 1, <<>>, "audio", r.blocked,
                     Payload(length, count + 1))

\* the binary branch without the `pending = None` of main.py:405
BytesKeepDeclaration(p, latest, q, count, length) ==
    IF p = None
    THEN Handled(p, latest, q, count, <<>>, "dropped", FALSE, None)
    ELSE IF length # p.expected_byte_length
    THEN Handled(None, latest, q, count,
                 <<StatusMsg("error", <<"Binary length mismatch">>)>>,
                 "mismatch", FALSE, None)
    ELSE IF p.payload_type = "video_frame"
    THEN Handled(p, Payload(length, 0), q, count, <<>>, "video", FALSE,
                 Payload(length, 0))
    ELSE LET r == push_audio(q, Payload(length, count + 1))
             debug == IF (count + 1) % DEBUG_EVERY = 0
                      THEN <<StatusMsg("debug", <<"pcm chunk">>)>>
                      ELSE <<>>
         IN  Handled(p, latest, r.queue, count + 1,
                     debug, "audio", r.blocked, Payload(length, count + 1))

\* main.py:381-405: one binary frame of `length` bytes
handle_bytes(p, latest, q, count, length) ==
    IF p = None
    THEN Handled(p, latest, q, count, <<>>, "dropped", FALSE, None)
    ELSE IF length # p.expected_byte_length
    THEN Handled(None, latest, q, count,
                 <<StatusMsg("error", <<"Binary length mismatch">>)>>,
                 "mismatch", FALSE, None)
    ELSE IF p.payload_type = "video_frame"
    THEN Handled(None, Payload(length, 0), q, count, <<>>, "video", FALSE,
                 Payload(length, 0))
    ELSE LET r == push_audio(q, Payload(length, count + 1))
             debug == IF (count + 1) % DEBUG_EVERY = 0
                      THEN <<StatusMsg("debug", <<"pcm chunk">>)>>
                      ELSE <<>>
         IN  Handled(IF r.blocked THEN p ELSE None, latest, r.queue, count + 1,
                     debug, "audio", r.blocked, Payload(length, count + 1))

Observed(kind, length, result, payload, sent) ==
    [kind |-> kind, length |-> length, was_full |-> full(audio_queue),
     result |-> result, payload |-> payload, sent |-> sent]

\* main.py:363-379: a text frame.  An exception other than JSONDecodeError
\* leaves the read loop and ws_phone through its finally block
\* (main.py:407-414): the relay is cancelled and the connection ends.
RecvText(envelope) ==
    /\ client_state[Session] = "open"
    /\ read_pc = "receive"
    /\ envelope.type = "pcm_audio" => audio_chunk_count < MaxChunks
    /\ CASE parse(envelope) = "declared" ->
              /\ pending' = PendingBinaryPayload(envelope.type, envelope.byte_length)
              /\ frame' = Observed("text", 0, "declared", None, <<>>)
              /\ UNCHANGED <<client_state, relay, provider_ws>>
         [] parse(envelope) = "stop" ->
              /\ pending' = pending
              /\ frame' = Observed("text", 0, "stop", None,
                                   <<StatusMsg("idle", <<"Stopped.">>)>>)
              /\ UNCHANGED <<client_state, relay, provider_ws>>
         [] parse(envelope) = "skipped" ->
              /\ pending' = pending
              /\ frame' = Observed("text", 0, "skipped", None, <<>>)
              /\ UNCHANGED <<client_state, relay, provider_ws>>
         [] parse(envelope) = "raised" ->
              /\ pending' = pending
              /\ frame' = Observed("text", 0, "raised", None, <<>>)
              /\ client_state' = [client_state EXCEPT ![Session] = "closed"]
              /\ IF relay = "running"
                 THEN relay' = "cancelled" /\ provider_ws' = "closed"
                 ELSE UNCHANGED <<relay, provider_ws>>
    /\ UNCHANGED <<client_log, tts_lock, sender_task, receiver_task, bridgeVars,
                   convVars, devVars, latest_jpeg_frame, audio_queue,
                   audio_chunk_count, read_pc, forwarded, partial_text,
                   current_task, now, turn_pc, speak_tasks, turn,
                   appended, nturns, nappends, eventVars, httpVars>>

\* main.py:381-405: a binary frame
RecvBytes(length) ==
    /\ client_state[Session] = "open"
    /\ read_pc = "receive"
    /\ LET h == handle_bytes(pending, latest_jpeg_frame, audio_queue,
                             audio_chunk_count, length)
       IN  /\ pending' = h.pending
           /\ latest_jpeg_frame' = h.latest
           /\ audio_queue' = h.queue
           /\ audio_chunk_count' = h.count
           /\ read_pc' = IF h.blocked THEN "put_wait" ELSE "receive"
           /\ frame' = Observed("bytes", length, h.result, h.payload, h.sent)
    /\ UNCHANGED <<clientVars, loopVars, bridgeVars, convVars, devVars, forwarded, partial_text, current_task, now,
                   relay, turn_pc, speak_tasks, turn, appended, nturns, nappends, eventVars, httpVars>>

\* main.py:185-189: the sender loop takes the oldest chunk and forwards it.
\* A put() suspended on the full queue is resumed by the get().
SenderGet ==
    /\ relay = "running"
    /\ audio_queue # <<>>
    /\ forwarded' = Append(forwarded, Head(audio_queue))
    /\ IF read_pc = "put_wait"
       THEN /\ audio_queue' = Append(Tail(audio_queue), frame.payload)
            /\ read_pc' = "receive"
            /\ pending' = None
       ELSE /\ audio_queue' = Tail(audio_queue)
            /\ UNCHANGED <<read_pc, pending>>
    /\ UNCHANGED <<clientVars, loopVars, bridgeVars, convVars, devVars, latest_jpeg_frame, audio_chunk_count, frame,
                   partial_text, current_task, now, relay, turn_pc, speak_tasks,
                   turn, appended, nturns, nappends, eventVars, httpVars>>

\* The provider connection fails: the receiver loop raises, the worker
\* cancels the sender loop and leaves the connection (main.py:219-234).
RelayFails ==
    /\ relay = "running"
    /\ relay' = "crashed"
    /\ receiver_task' = "failed"
    /\ sender_task' = "cancelled"
    /\ provider_ws' = "closed"
    /\ UNCHANGED <<clientVars, bridgeVars, convVars, devVars, frameVars,
                   partial_text, current_task, now,
                   turn_pc, speak_tasks, turn, appended, nturns, nappends, eventVars, httpVars>>

NextFrames ==
    \/ \E envelope \in Envelopes : RecvText(envelope)
    \/ \E length \in ByteLengths : RecvBytes(length)
    \/ SenderGet
    \/ RelayFails

SpecFrames == Init /\ [][NextFrames]_vars

-----------------------------------------------------------------------------
(* Conversation history on its own: add_user_message and                     *)
(* add_assistant_message (brain.py:103-117) applied to a history of any      *)
(* length the trimming allows.                                               *)

HistoryContents == {<<"a">>, <<"b">>}

\* A history of n messages as turns leave it: user, assistant, user, ...
InitialHistory(n) ==
    [i \in 1..n |-> Message(IF i % 2 = 1 THEN "user" ELSE "assistant",
                            <<ToString(i)>>)]

InitHist ==
    /\ InitCommon
    /\ \E n \in 0..(MAX_HISTORY_TURNS * 2) : messages = InitialHistory(n)
    /\ appended = messages

AddUserMessage(content) ==
    /\ nappends < MaxAppends
    /\ nappends' = nappends + 1
    /\ UNCHANGED <<eventVars, httpVars>>
    /\ SetConv(add_user_message(Conv, content, now))
    /\ appended' = Append(appended, Message("user", content))
    /\ UNCHANGED <<clientVars, loopVars, bridgeVars, frameVars, devVars, partial_text, current_task, now, relay,
                   turn_pc, speak_tasks, turn, nturns>>

AddAssistantMessage(content) ==
    /\ nappends < MaxAppends
    /\ nappends' = nappends + 1
    /\ UNCHANGED <<eventVars, httpVars>>
    /\ SetConv(add_assistant_message(Conv, content, now))
    /\ appended' = Append(appended, Message("assistant", content))
    /\ UNCHANGED <<clientVars, loopVars, bridgeVars, frameVars, devVars, partial_text, current_task, now, relay,
                   turn_pc, speak_tasks, turn, nturns>>

NextHist ==
    \/ \E content \in HistoryContents : AddUserMessage(content)
    \/ \E content \in HistoryContents : AddAssistantMessage(content)

SpecHist == InitHist /\ [][NextHist]_vars

-----------------------------------------------------------------------------
(* Client sessions (main.py:237-415), the dispatch of a device action by any *)
(* session, and the status updates a device bridge sends back                *)
(* (device_bridge/main.py:22-44, main.py:446-452, main.py:321-333).          *)

\* ws_phone accepts a further client (main.py:239-255)
SessionConnect(s) ==
    /\ client_state[s] = "new"
    /\ client_state' = [client_state EXCEPT ![s] = "open"]
    /\ UNCHANGED <<convVars, frameVars, devVars, loopVars, bridgeVars, client_log,
                   tts_lock, partial_text, current_task, now, relay, turn_pc,
                   speak_tasks, turn, appended, nturns, nappends, eventVars, httpVars>>

\* The client goes away: receive() raises WebSocketDisconnect in the read
\* loop and the finally block cancels the relay task (main.py:407-414).
\* The worker is cancelled inside asyncio.wait (main.py:221), which leaves
\* the two loop tasks alone; leaving `async with` closes the provider
\* connection.  Only the relay of session Session is modelled.
SessionDisconnect(s) ==
    /\ client_state[s] = "open"
    /\ s = Session => read_pc = "receive"
    /\ client_state' = [client_state EXCEPT ![s] = "closed"]
    /\ IF s = Session /\ relay = "running"
       THEN /\ relay' = "cancelled"
            /\ provider_ws' = "closed"
            /\ UNCHANGED <<sender_task, receiver_task>>
       ELSE UNCHANGED <<relay, loopVars>>
    /\ UNCHANGED <<convVars, frameVars, devVars, bridgeVars, client_log, tts_lock,
                   partial_text, current_task, now, turn_pc, speak_tasks, turn,
                   appended, nturns, nappends, eventVars, httpVars>>

\* The device actions a confirmation may yield
DispatchActions == { PendingAction(d, g, "laptop") : d \in {"laptop-1"}, g \in Goals }

\* on_final of session s from main.py:307 on, for a DeviceActionResponse
\* with answer "On it." and action a.  max_turns caps the number of such
\* turns of one run.
Dispatch(s, a, max_turns) ==
    /\ client_state[s] = "open"
    /\ s = Session => relay = "running"
    /\ nturns < max_turns
    /\ nturns' = nturns + 1
    /\ LET d == dispatch(s, a)
       IN  /\ speak_tasks' = Append(speak_tasks, SpeakTask(s, ON_IT))
           /\ current_task' = [current_task EXCEPT ![s] = d.task]
           /\ device_status_callbacks' = d.callbacks
           /\ bridge_inbox' = received(bridge_inbox, d.to_device, s)
           /\ client_log' = [client_log EXCEPT ![s] =
                  logged(@, <<Sent("client", "assistant_text", "", ON_IT)>>
                            \o d.queued \o d.warning)]
    /\ UNCHANGED <<convVars, frameVars, loopVars, connected_devices, conn_state,
                   conn_device, client_state, tts_lock, status_event,
                   partial_text, now, relay, turn_pc, turn, appended, nappends, eventVars, httpVars>>

\* on_task_status of session s (main.py:321-333): the TaskStatus it leaves,
\* the speak tasks it creates, what it sends, and whether send_status raises
on_task_status(s, status, message) ==
    LET task == current_task[s]
    IN  [task |-> IF task # None
                  THEN [task EXCEPT !.status = status, !.message = message]
                  ELSE task,
         speaks |-> IF task # None /\ status = "completed"
                    THEN <<SpeakTask(s, <<"Done.", message>>)>>
                    ELSE IF task # None /\ status = "failed"
                    THEN <<SpeakTask(s, <<"Task failed.", message>>)>>
                    ELSE <<>>,
         sent |-> IF client_state[s] = "open"
                  THEN <<StatusMsg(status, <<message>>)>>
                  ELSE <<>>,
         raised |-> client_state[s] # "open"]

\* The statuses handle_task sends for one task, in order
\* (device_bridge/main.py:25, 38-44)
NextStatuses(task) ==
    IF task.started THEN {"completed", "failed"} ELSE {"started"}

StatusText(status) ==
    CASE status = "started" -> "Starting task"
      [] status = "completed" -> "result"
      [] OTHER -> "Error"

\* The bridge behind connection c sends the next status of the task it is
\* working on, and ws_device handles the status_update (main.py:446-452).
\* An exception of the callback leaves the receive loop of ws_device: its
\* finally block runs (main.py:460-465) and the handler is gone while the
\* bridge is still connected ("aborted").
StatusUpdate(c, status) ==
    /\ conn_state[c] = "open"
    /\ conn_device[c] # NoDevice
    /\ bridge_inbox[c] # <<>>
    /\ status \in NextStatuses(Head(bridge_inbox[c]))
    /\ LET head == Head(bridge_inbox[c])
           dev_id == conn_device[c]
           callback == device_status_callbacks[dev_id]
           inbox == IF head.started
                    THEN Tail(bridge_inbox[c])
                    ELSE <<[head EXCEPT !.started = TRUE]>> \o Tail(bridge_inbox[c])
       IN  IF callback = NoCallback
           THEN /\ status_event' = [n |-> status_event.n + 1, status |-> status,
                                    origin |-> head.origin, to |-> NoCallback,
                                    delivered |-> FALSE]
                /\ bridge_inbox' = [bridge_inbox EXCEPT ![c] = inbox]
                /\ UNCHANGED <<devVars, current_task, speak_tasks, client_log>>
           ELSE LET r == on_task_status(callback, status, StatusText(status))
                IN  /\ current_task' = [current_task EXCEPT ![callback] = r.task]
                    /\ speak_tasks' = speak_tasks \o r.speaks
                    /\ client_log' = [client_log EXCEPT ![callback] = logged(@, r.sent)]
                    /\ status_event' = [n |-> status_event.n + 1, status |-> status,
                                        origin |-> head.origin, to |-> callback,
                                        delivered |-> ~r.raised]
                    /\ IF r.raised
                       THEN /\ conn_state' = [conn_state EXCEPT ![c] = "aborted"]
                            /\ conn_device' = [conn_device EXCEPT ![c] = NoDevice]
                            /\ connected_devices' =
                                  [connected_devices EXCEPT ![dev_id] = NoConn]
                            /\ device_status_callbacks' =
                                  [device_status_callbacks EXCEPT ![dev_id] = NoCallback]
                            /\ bridge_inbox' = [bridge_inbox EXCEPT ![c] = <<>>]
                       ELSE /\ bridge_inbox' = [bridge_inbox EXCEPT ![c] = inbox]
                            /\ UNCHANGED devVars
    /\ UNCHANGED <<convVars, frameVars, loopVars, client_state, tts_lock,
                   partial_text, now, relay, turn_pc, turn, appended, nturns,
                   nappends, eventVars, httpVars>>

NextRoute ==
    \/ \E s \in Sessions : SessionConnect(s)
    \/ \E s \in Sessions : SessionDisconnect(s)
    \/ \E s \in Sessions, a \in DispatchActions : Dispatch(s, a, MaxRouteTurns)
    \/ \E c \in OneBridge, status \in {"started", "completed", "failed"} :
          StatusUpdate(c, status)
    \/ \E c \in OneBridge : DeviceConnect(c)
    \/ \E c \in OneBridge, device_id \in Registering : DeviceRegister(c, device_id)
    \/ \E c \in OneBridge : DeviceLost(c)
    \/ \E c \in OneBridge : DeviceDisconnect(c)

SpecRoute == Init /\ [][NextRoute]_vars

\* The device registry with two device connections, which may announce the
\* same device id, and a session dispatching to that id.
MaxRegistryTurns == 2   \* device actions dispatched in one run of SpecRegistry

NextRegistry ==
    \/ \E c \in Conns : DeviceConnect(c)
    \/ \E c \in Conns, device_id \in DeviceIds : DeviceRegister(c, device_id)
    \/ \E c \in Conns : DeviceLost(c)
    \/ \E c \in Conns : DeviceDisconnect(c)
    \/ \E a \in DispatchActions : Dispatch(Session, a, MaxRegistryTurns)

SpecRegistry == Init /\ [][NextRegistry]_vars

-----------------------------------------------------------------------------
(* The end of a client session and the two loops of the relay                *)
(* (main.py:185-234, 407-414).                                               *)

\* a text frame, while fewer than max_chunks audio chunks have been accepted
RecvTextUpTo(envelope, max_chunks) ==
    /\ audio_chunk_count < max_chunks
    /\ RecvText(envelope)

\* sender() after the provider connection was closed under it: the get()
\* returns a chunk and the send raises ConnectionClosed (main.py:187-189)
SenderAfterClose ==
    /\ sender_task = "running"
    /\ provider_ws # "open"
    /\ audio_queue # <<>>
    /\ audio_queue' = Tail(audio_queue)
    /\ sender_task' = "failed"
    /\ UNCHANGED <<convVars, devVars, clientVars, bridgeVars, pending,
                   latest_jpeg_frame, audio_chunk_count, read_pc, frame,
                   forwarded, receiver_task, provider_ws, partial_text,
                   current_task, now, relay, turn_pc, speak_tasks, turn,
                   appended, nturns, nappends, eventVars, httpVars>>

\* receiver() after the provider connection was closed under it: the
\* iteration over the connection ends (main.py:192)
ReceiverAfterClose ==
    /\ receiver_task = "running"
    /\ provider_ws = "closed"
    /\ receiver_task' = "ended"
    /\ UNCHANGED <<convVars, devVars, frameVars, clientVars, bridgeVars,
                   sender_task, provider_ws, partial_text, current_task, now,
                   relay, turn_pc, speak_tasks, turn, appended, nturns, nappends, eventVars, httpVars>>

AudioEnvelopes == { e \in Envelopes : e.type = "pcm_audio" /\ e.numeric }

NextClose ==
    \/ \E envelope \in AudioEnvelopes : RecvTextUpTo(envelope, MaxCloseChunks)
    \/ \E length \in ByteLengths : RecvBytes(length)
    \/ SenderGet
    \/ RelayFails
    \/ SessionDisconnect(Session)
    \/ SenderAfterClose
    \/ ReceiverAfterClose

\* Both loops are tasks of the event loop: each runs when it can.
SpecClose ==
    /\ Init /\ [][NextClose]_vars
    /\ WF_vars(SenderGet) /\ WF_vars(SenderAfterClose) /\ WF_vars(ReceiverAfterClose)

-----------------------------------------------------------------------------
(* speak() (main.py:263-276) and stream_tts (tts.py:65-88).  Task i is       *)
(* speak_tasks[i]; its pc is "created" (not yet inside `async with           *)
(* tts_lock`), "start", "synth", "chunks", "end" (holding the lock, before   *)
(* the step of that name), "except" (in the handler, before send_status),    *)
(* "done" (returned) or "died" (left by an exception).  asyncio starts tasks *)
(* in creation order and asyncio.Lock wakes its waiters in arrival order.    *)

\* What a speak task sends: tts_start, an audio chunk, tts_end
SpeakMsg(i, type) ==
    [to |-> "client", type |-> type, state |-> "", text |-> <<>>, speak |-> i]

TTS_ERROR == StatusMsg("error", <<"TTS error">>)

\* the lock granted whether or not it is held
LockAlwaysFree(locks, s) == TRUE

\* asyncio.Lock.locked() is false
lock_free(locks, s) == locks[s] = 0

\* leaving `async with` without releasing
ReleaseNever(locks, s) == locks

\* asyncio.Lock.release() on leaving `async with tts_lock`
release(locks, s) == [locks EXCEPT ![s] = 0]

\* stream_tts(text): it raises (no API key, provider error), or yields the
\* audio in this many chunks of 4096 bytes
SynthOutcomes ==
    { [ok |-> FALSE, chunks |-> 0], [ok |-> TRUE, chunks |-> 0],
      [ok |-> TRUE, chunks |-> 2] }

\* a turn creates one speak task, the end of its task another
SpeakIds == 1..(2 * MaxSpeakTurns)

SpeakUnchanged ==
    UNCHANGED <<convVars, frameVars, devVars, loopVars, bridgeVars, client_state,
                partial_text, current_task, now, relay, turn_pc, turn, appended,
                nturns, nappends, eventVars, httpVars>>

\* `async with tts_lock` is entered (main.py:265)
SpeakAcquire(i) ==
    /\ i <= Len(speak_tasks)
    /\ speak_tasks[i].pc = "created"
    /\ lock_free(tts_lock, speak_tasks[i].session)
    /\ \A j \in 1..(i - 1) :
          speak_tasks[j].session = speak_tasks[i].session =>
              speak_tasks[j].pc # "created"
    /\ tts_lock' = [tts_lock EXCEPT ![speak_tasks[i].session] = i]
    /\ speak_tasks' = [speak_tasks EXCEPT ![i].pc = "start"]
    /\ UNCHANGED client_log
    /\ SpeakUnchanged

\* send_json({"type": "tts_start"}) (main.py:268)
SpeakStart(i) ==
    /\ i <= Len(speak_tasks)
    /\ speak_tasks[i].pc = "start"
    /\ LET s == speak_tasks[i].session
       IN  IF client_state[s] = "open"
           THEN /\ client_log' = [client_log EXCEPT ![s] =
                                     logged(@, <<SpeakMsg(i, "tts_start")>>)]
                /\ speak_tasks' = [speak_tasks EXCEPT
                                      ![i].pc = "synth",
                                      ![i].marks = Append(@, "tts_start")]
           ELSE /\ speak_tasks' = [speak_tasks EXCEPT ![i].pc = "except"]
                /\ UNCHANGED client_log
    /\ UNCHANGED tts_lock
    /\ SpeakUnchanged

\* the first iteration of `async for chunk in stream_tts(text)`
\* (main.py:270, tts.py:76-83)
SpeakSynth(i, outcome) ==
    /\ i <= Len(speak_tasks)
    /\ speak_tasks[i].pc = "synth"
    /\ speak_tasks' =
          [speak_tasks EXCEPT
             ![i].pc = IF ~outcome.ok THEN "except"
                       ELSE IF outcome.chunks = 0 THEN "end" ELSE "chunks",
             ![i].left = outcome.chunks]
    /\ UNCHANGED <<tts_lock, client_log>>
    /\ SpeakUnchanged

\* websocket.send_bytes(chunk) (main.py:271)
SpeakChunk(i) ==
    /\ i <= Len(speak_tasks)
    /\ speak_tasks[i].pc = "chunks"
    /\ LET s == speak_tasks[i].session
       IN  IF client_state[s] = "open"
           THEN /\ client_log' = [client_log EXCEPT ![s] =
                                     logged(@, <<SpeakMsg(i, "audio")>>)]
                /\ speak_tasks' =
                      [speak_tasks EXCEPT
                         ![i].left = @ - 1,
                         ![i].pc = IF speak_tasks[i].left = 1
                                   THEN "end" ELSE "chunks"]
           ELSE /\ speak_tasks' = [speak_tasks EXCEPT ![i].pc = "except"]
                /\ UNCHANGED client_log
    /\ UNCHANGED tts_lock
    /\ SpeakUnchanged

\* send_json({"type": "tts_end"}) and the end of speak (main.py:274)
SpeakEnd(i) ==
    /\ i <= Len(speak_tasks)
    /\ speak_tasks[i].pc = "end"
    /\ LET s == speak_tasks[i].session
       IN  IF client_state[s] = "open"
           THEN /\ client_log' = [client_log EXCEPT ![s] =
                                     logged(@, <<SpeakMsg(i, "tts_end")>>)]
                /\ speak_tasks' = [speak_tasks EXCEPT
                                      ![i].pc = "done",
                                      ![i].marks = Append(@, "tts_end")]
                /\ tts_lock' = release(tts_lock, s)
           ELSE /\ speak_tasks' = [speak_tasks EXCEPT ![i].pc = "except"]
                /\ UNCHANGED <<client_log, tts_lock>>
    /\ SpeakUnchanged

\* the handler: send_status("error", ...) (main.py:275-276).  On a closed
\* client connection it raises in turn and the exception leaves speak.
SpeakExcept(i) ==
    /\ i <= Len(speak_tasks)
    /\ speak_tasks[i].pc = "except"
    /\ LET s == speak_tasks[i].session
       IN  /\ IF client_state[s] = "open"
              THEN /\ client_log' = [client_log EXCEPT ![s] = logged(@, <<TTS_ERROR>>)]
                   /\ speak_tasks' = [speak_tasks EXCEPT ![i].pc = "done"]
              ELSE /\ speak_tasks' = [speak_tasks EXCEPT ![i].pc = "died"]
                   /\ UNCHANGED client_log
           /\ tts_lock' = release(tts_lock, s)
    /\ SpeakUnchanged

SpeakStep ==
    \E i \in SpeakIds :
        \/ SpeakAcquire(i)
        \/ SpeakStart(i)
        \/ \E outcome \in SynthOutcomes : SpeakSynth(i, outcome)
        \/ SpeakChunk(i)
        \/ SpeakEnd(i)
        \/ SpeakExcept(i)

NextSpeak ==
    \/ \E c \in OneBridge : DeviceConnect(c)
    \/ \E c \in OneBridge, device_id \in Registering : DeviceRegister(c, device_id)
    \/ \E a \in DispatchActions : Dispatch(Session, a, MaxSpeakTurns)
    \/ \E c \in OneBridge, status \in {"started", "completed", "failed"} :
          StatusUpdate(c, status)
    \/ SessionDisconnect(Session)
    \/ \E i \in SpeakIds : SpeakAcquire(i)
    \/ \E i \in SpeakIds : SpeakStart(i)
    \/ \E i \in SpeakIds, outcome \in SynthOutcomes : SpeakSynth(i, outcome)
    \/ \E i \in SpeakIds : SpeakChunk(i)
    \/ \E i \in SpeakIds : SpeakEnd(i)
    \/ \E i \in SpeakIds : SpeakExcept(i)

\* Every speak task is a task of the event loop, and each of its awaits
\* ends: the sends complete or raise, the synthesis request has a timeout.
SpecSpeak == Init /\ [][NextSpeak]_vars /\ WF_vars(SpeakStep)

-----------------------------------------------------------------------------
(* Properties                                                                *)

IsAssistantText(m) == m.type = "assistant_text"
IsLaptopTask(m) == m.type = "laptop_task"
AssistantTexts(sent) == SelectSeq(sent, IsAssistantText)
LaptopTasks(sent) == SelectSeq(sent, IsLaptopTask)

\* The last final transcript was handed to process_input
Handed == turn.n > 0 /\ ~IsBlank(turn.transcript)
\* ... and was not ignored
Processed == turn.result \notin {"none", "blank", "ignored"}
\* ... and on_final has returned with a reply
Replied == turn.result \in {"simple", "device_action"}
\* The session was Active and past the inactivity timeout when it arrived
TimedOut == turn.pre_active /\ turn.pre_elapsed > CONVERSATION_TIMEOUT
\* The session was Active and within the window when it arrived
ActiveInWindow == turn.pre_active /\ turn.pre_elapsed <= CONVERSATION_TIMEOUT

\* C1: a final transcript without a wake phrase, handed to process_input
\* while the session is Dormant, gets IgnoredResponse: no assistant_text, no
\* speak task, no call of intent resolution, and the history is as before.
C1_DormantIgnored ==
    (Handed /\ ~turn.wake /\ ~turn.pre_active) =>
        /\ turn.result = "ignored"
        /\ AssistantTexts(turn.sent) = <<>>
        /\ turn.speaks = <<>>
        /\ turn.resolver_calls = 0
        /\ messages = turn.pre_messages
        /\ turn_pc = "idle"

\* a session that was activated, timed out and was deactivated by the
\* transcript before this one
C1_Witness ==
    /\ Handed /\ ~turn.wake /\ ~turn.pre_active
    /\ turn.result = "ignored"
    /\ turn.n = 3 /\ turn.pre_messages # <<>>

\* C2 (as claimed): in a session that is Active and within the 30-second
\* window, every final transcript the relay delivers is processed and gets
\* a reply, once on_final has returned.
C2_ActiveAlwaysReplies ==
    (turn.n > 0 /\ ActiveInWindow /\ turn_pc = "idle") =>
        /\ Replied
        /\ Len(AssistantTexts(turn.sent)) = 1

\* C3: the history never holds more than 2*MAX_HISTORY_TURNS messages, and
\* it is always the most recent suffix, in insertion order, of everything
\* appended: trimming removes exactly the oldest messages.
C3_HistoryBounded ==
    /\ Len(messages) <= 2 * MAX_HISTORY_TURNS
    /\ LET n == Len(appended)
           k == IF n > 2 * MAX_HISTORY_TURNS THEN 2 * MAX_HISTORY_TURNS ELSE n
       IN  messages = SubSeq(appended, n - k + 1, n)

C3_Witness ==
    /\ Len(appended) = 2 * MAX_HISTORY_TURNS + 2
    /\ Len(messages) = 2 * MAX_HISTORY_TURNS
    /\ messages[1] = appended[3]

\* C4 (as claimed): the session holds at most one PendingAction, and a
\* PendingAction present when a transcript is processed is cleared by that
\* turn whatever the transcript: afterwards the only pending action there
\* can be is one the intent model proposed in this very turn.
C4_PendingAlwaysCleared ==
    /\ pending_action = None \/ pending_action.kind = "PendingAction"
    /\ (turn.pre_pending # None /\ Processed) => pending_action = turn.proposed

\* C5 (amended): with a PendingAction P, the session within its window and a
\* confirmation as the next transcript, the turn replies "On it.", clears
\* the pending action and yields a device action with P's fields; one
\* laptop_task with P's goal goes to the connection registered for
\* P.device_id if that connection is open, and none is sent otherwise.
C5_ConfirmDispatches ==
    (turn.pre_pending # None /\ ~TimedOut /\ Processed
       /\ is_confirmation(turn.clean)) =>
        /\ turn.result = "device_action"
        /\ turn.answer = ON_IT
        /\ AssistantTexts(turn.sent) = <<Sent("client", "assistant_text", "", ON_IT)>>
        /\ pending_action = None
        /\ turn.action = turn.pre_pending
        /\ turn.resolver_calls = 0
        /\ LaptopTasks(turn.sent) =
              IF turn.ws_open
              THEN <<Sent(turn.ws, "laptop_task", "", <<turn.pre_pending.goal>>)>>
              ELSE <<>>

C5_Witness ==
    /\ turn.pre_pending # None /\ ~TimedOut /\ Processed
    /\ is_confirmation(turn.clean)
    /\ turn.transcript = <<"yeah", "do", "it">>
    /\ turn.pre_pending = PendingAction("laptop-1", "open chrome", "laptop")
    /\ turn.ws_open
    /\ Len(LaptopTasks(turn.sent)) = 1

\* C5 (as claimed): whenever a PendingAction P exists and the next processed
\* transcript is a confirmation, the turn replies "On it.", clears the
\* pending action, yields P as device action and, when P.device_id is in
\* the registry, sends exactly one laptop_task to it.
C5_Original ==
    (turn.pre_pending # None /\ Processed /\ turn_pc = "idle"
       /\ is_confirmation(turn.clean)) =>
        /\ turn.result = "device_action"
        /\ turn.answer = ON_IT
        /\ pending_action = None
        /\ turn.action = turn.pre_pending
        /\ turn.ws # NoConn =>
              LaptopTasks(turn.sent) =
                  <<Sent(turn.ws, "laptop_task", "", <<turn.pre_pending.goal>>)>>

\* C6 (amended): with a PendingAction and a next processed transcript that
\* is not empty once the wake phrase is stripped and matches neither
\* lexicon, the pending action is cleared, no device action is emitted, and
\* the stripped transcript goes to intent resolution, whose answer is the
\* reply.
C6_UnrelatedFallsThrough ==
    (turn.pre_pending # None /\ Processed /\ ~IsBlank(turn.clean)
       /\ ~is_confirmation(turn.clean) /\ ~is_denial(turn.clean)) =>
        /\ turn.branch = "resolve"
        /\ turn.resolver_calls = 1
        /\ turn.resolver_input = turn.clean
        /\ turn.action = None
        /\ LaptopTasks(turn.sent) = <<>>
        /\ pending_action = turn.proposed
        /\ Replied => /\ turn.result = "simple"
                      /\ turn.answer = turn.resolved

C6_Witness ==
    /\ turn.pre_pending # None /\ Processed /\ ~TimedOut
    /\ turn.transcript = <<"actually", "what", "time", "is", "it">>
    /\ Replied
    /\ pending_action = None

\* C6 (as claimed): with a PendingAction, every processed transcript that
\* matches neither lexicon clears the pending action and goes to intent
\* resolution.
C6_Original ==
    (turn.pre_pending # None /\ Processed
       /\ ~is_confirmation(turn.clean) /\ ~is_denial(turn.clean)) =>
        /\ turn.resolver_calls = 1
        /\ turn.action = None
        /\ pending_action = turn.proposed

\* C7 (amended): with a PendingAction, the session within its window and a
\* denial as the next transcript, the pending action is cleared, the reply
\* is "Okay, nevermind.", no device action is emitted and intent resolution
\* is not called.
C7_DenialCancels ==
    (turn.pre_pending # None /\ ~TimedOut /\ Processed
       /\ is_denial(turn.clean)) =>
        /\ turn.result = "simple"
        /\ turn.answer = NEVERMIND
        /\ AssistantTexts(turn.sent) =
              <<Sent("client", "assistant_text", "", NEVERMIND)>>
        /\ pending_action = None
        /\ turn.action = None
        /\ LaptopTasks(turn.sent) = <<>>
        /\ turn.resolver_calls = 0

C7_Witness ==
    /\ turn.pre_pending # None /\ ~TimedOut /\ Processed
    /\ turn.transcript = <<"no">>
    /\ turn.answer = NEVERMIND

\* C7 (as claimed): whenever a PendingAction exists and the next processed
\* transcript is a denial, the pending action is cleared, the reply is
\* "Okay, nevermind." and intent resolution is not called.
C7_Original ==
    (turn.pre_pending # None /\ Processed /\ is_denial(turn.clean)) =>
        /\ turn.answer = NEVERMIND
        /\ pending_action = None
        /\ turn.resolver_calls = 0

\* C8: in an Active session with no PendingAction a denial phrase goes to
\* intent resolution every time it is said; the reply is the intent model's
\* answer, never the cancellation branch.
C8_DenialWithoutPending ==
    (Handed /\ ActiveInWindow /\ turn.pre_pending = None
       /\ is_denial(turn.clean)) =>
        /\ turn.branch = "resolve"
        /\ turn.resolver_calls = 1
        /\ turn.resolver_input = turn.clean
        /\ Replied => /\ turn.result = "simple"
                      /\ turn.answer = turn.resolved
                      /\ AssistantTexts(turn.sent) =
                            <<Sent("client", "assistant_text", "", turn.resolved)>>

\* the phrase is said a second time, after a first turn that also sent it
\* to intent resolution
C8_Witness ==
    /\ Handed /\ ActiveInWindow /\ turn.pre_pending = None
    /\ turn.n = 3 /\ turn.transcript = <<"no">>
    /\ Len(turn.pre_messages) = 4
    /\ turn.pre_messages[1].content = <<"hey", "wink", ",", "no">>
    /\ turn.pre_messages[3].content = <<"no">>
    /\ turn.pre_messages[4].content = <<"Four.">>
    /\ Replied /\ turn.answer = <<"Four.">>

\* C9: the read loop is never suspended in put(), the audio queue never
\* holds more than AUDIO_QUEUE_MAXSIZE chunks, and a step that accepts an
\* audio chunk leaves that chunk at the tail of the queue, also when the
\* queue was full before it.
C9_PushNeverBlocks ==
    /\ [](read_pc = "receive" /\ Len(audio_queue) <= AUDIO_QUEUE_MAXSIZE)
    /\ [][audio_chunk_count' # audio_chunk_count =>
            /\ audio_queue' # <<>>
            /\ audio_queue'[Len(audio_queue')] = frame'.payload
            /\ frame'.payload.chunk = audio_chunk_count']_vars

C9_Witness ==
    /\ frame.result = "audio" /\ frame.was_full
    /\ Len(audio_queue) = AUDIO_QUEUE_MAXSIZE
    /\ audio_queue[AUDIO_QUEUE_MAXSIZE] = frame.payload
    /\ relay = "running"

\* C10: a binary frame whose length differs from the pending declaration is
\* rejected: the latest video frame, the audio queue and the chunk count are
\* unchanged, the declaration is discarded, exactly one error status is
\* sent and the read loop goes on receiving.
C10_MismatchRejected ==
    [][\A length \in ByteLengths :
          (RecvBytes(length) /\ pending # None
             /\ length # pending.expected_byte_length) =>
            /\ latest_jpeg_frame' = latest_jpeg_frame
            /\ audio_queue' = audio_queue
            /\ audio_chunk_count' = audio_chunk_count
            /\ pending' = None
            /\ frame'.sent = <<StatusMsg("error", <<"Binary length mismatch">>)>>
            /\ read_pc' = "receive"]_vars

C10_Witness ==
    /\ frame.kind = "bytes" /\ frame.result = "mismatch"
    /\ pending = None
    /\ latest_jpeg_frame # None
    /\ audio_queue # <<>>


\* C11: the timeout is noticed lazily.  The clock advancing changes neither
\* the activation flag nor the pending action; a transcript without a wake
\* phrase that arrives more than CONVERSATION_TIMEOUT after the last
\* interaction, or after the session went Dormant, gets no reply and no call
\* of intent resolution and leaves the session Dormant (check_active is
\* false from then on, and the flag is down once process_input has seen the
\* transcript).
C11_TimeoutLazy ==
    /\ [][now' # now => /\ is_active' = is_active
                         /\ pending_action' = pending_action
                         /\ turn' = turn]_vars
    /\ []((turn.n > 0 /\ ~turn.wake /\ (TimedOut \/ ~turn.pre_active)) =>
            /\ turn.result \in {"ignored", "blank"}
            /\ AssistantTexts(turn.sent) = <<>>
            /\ turn.speaks = <<>>
            /\ turn.resolver_calls = 0
            /\ messages = turn.pre_messages
            /\ ~check_active(Conv, now)
            /\ Handed => ~is_active /\ pending_action = None)

\* the transcript that meets the timeout: the session was still flagged
\* active when it arrived, 31 seconds after the activation
C11_Witness ==
    /\ Handed /\ ~turn.wake /\ TimedOut
    /\ turn.pre_elapsed = CONVERSATION_TIMEOUT + 1
    /\ turn.result = "ignored"
    /\ ~is_active


\* C12 (as claimed): a transcript containing a wake phrase is never ignored,
\* whatever the session's state was: once on_final has returned the session
\* is Active, the text that was classified and resolved is the transcript
\* without the wake phrase, and the turn has exactly one reply.
C12_WakeAlwaysReplies ==
    (turn.n > 0 /\ turn.wake /\ turn_pc = "idle") =>
        /\ is_active
        /\ turn.clean = strip_wake_phrase(turn.transcript)
        /\ turn.resolver_calls = 1 => turn.resolver_input = turn.clean
        /\ Replied
        /\ Len(AssistantTexts(turn.sent)) = 1
        /\ Len(turn.speaks) = 1


\* C19 (as claimed): when intent resolution fails while a final transcript
\* is handled, the failure stays in that turn: it is reported to the client
\* as a status event, and the transcription relay keeps running, so that
\* later final transcripts are still delivered and processed.
C19_IntentFailureConfined ==
    turn.result = "raised" =>
        /\ \E i \in 1..Len(turn.sent) : turn.sent[i].type = "laptop_status"
        /\ relay = "running"
        /\ turn_pc = "idle"


\* C13: a laptop_task goes to a device only in a turn that was classified
\* as a confirmation while a PendingAction was stored, and it carries that
\* PendingAction's goal; the turn in which the intent model proposes an
\* action replies with the answer alone, sends no laptop_task and stores
\* the proposal as the PendingAction.
C13_NoExecutionBeforeConfirm ==
    /\ LaptopTasks(turn.sent) # <<>> =>
          /\ turn.branch = "confirm"
          /\ is_confirmation(turn.clean)
          /\ turn.pre_pending # None
          /\ turn.proposed = None
          /\ \A i \in 1..Len(LaptopTasks(turn.sent)) :
                LaptopTasks(turn.sent)[i].text = <<turn.pre_pending.goal>>
    /\ (turn.proposed # None /\ turn_pc = "idle") =>
          /\ turn.result = "simple"
          /\ turn.answer = turn.resolved
          /\ turn.action = None
          /\ LaptopTasks(turn.sent) = <<>>
          /\ pending_action = turn.proposed

\* an action is proposed for a device that is registered and reachable:
\* the proposal is stored and nothing has been sent to the device
C13_Witness ==
    /\ turn.proposed = PendingAction("laptop-1", "open chrome", "laptop")
    /\ turn_pc = "idle"
    /\ pending_action = turn.proposed
    /\ connected_devices["laptop-1"] # NoConn
    /\ conn_state[connected_devices["laptop-1"]] = "open"
    /\ LaptopTasks(turn.sent) = <<>>


\* C16: a confirmed action for a device id that is not in the registry is
\* dispatched without any wait: on_final has returned, no laptop_task was
\* sent, no status callback was registered, the TaskStatus created for the
\* action is failed with message "Device not connected", and the client got
\* the warning status after the queued status.
C16_UnregisteredDispatchFails ==
    (turn.result = "device_action" /\ turn.ws = NoConn) =>
        /\ turn_pc = "idle"
        /\ ~turn.dispatch_ok
        /\ LaptopTasks(turn.sent) = <<>>
        /\ device_status_callbacks[turn.action.device_id] = NoCallback
        /\ turn.task = TaskStatus(turn.action.goal, turn.action.device_id,
                                  "failed", "Device not connected")
        /\ current_task[Session] = turn.task
        /\ turn.sent[Len(turn.sent)] =
              StatusMsg("warning", <<turn.action.device_id, "not connected">>)
        /\ turn.sent[Len(turn.sent) - 1] =
              StatusMsg("queued", <<turn.action.device_id, turn.action.goal>>)

\* the action names laptop-2 while only laptop-1 is registered and reachable
C16_Witness ==
    /\ turn.result = "device_action" /\ turn.ws = NoConn
    /\ turn.action = PendingAction("laptop-2", "open chrome", "laptop")
    /\ connected_devices["laptop-1"] # NoConn
    /\ conn_state[connected_devices["laptop-1"]] = "open"
    /\ current_task[Session].status = "failed"


C20_DeviceStaysRegistered ==
    \A c \in Conns :
        /\ conn_state[c] # "aborted"
        /\ (conn_state[c] = "open" /\ conn_device[c] # NoDevice) =>
              connected_devices[conn_device[c]] = c


\* C18 (as claimed): once the client has disconnected, the relay task has
\* been cancelled and, eventually, its sender loop and its receiver loop
\* have both stopped and the provider connection is closed: no sender stays
\* blocked on the audio queue of the ended session.
C18_RelayStopsAfterDisconnect ==
    (client_state[Session] = "closed") ~>
        /\ relay # "running"
        /\ provider_ws = "closed"
        /\ receiver_task # "running"
        /\ sender_task # "running"


\* speak task i is inside `async with tts_lock`
Holding(i) ==
    /\ i <= Len(speak_tasks)
    /\ speak_tasks[i].pc \in {"start", "synth", "chunks", "end", "except"}
\* ... and between its tts_start and the point where it finishes or fails
Streaming(i) ==
    /\ i <= Len(speak_tasks)
    /\ speak_tasks[i].pc \in {"synth", "chunks", "end"}
\* speak task i has left speak()
Finished(i) ==
    /\ i <= Len(speak_tasks)
    /\ speak_tasks[i].pc \in {"done", "died"}
IsSpeech(m) == m.type \in {"tts_start", "audio", "tts_end"}
\* what a step adds to the client log of session s
NewlySent(s) ==
    IF client_log'[s].n # client_log[s].n THEN client_log'[s].last ELSE <<>>

\* C14: the speak tasks of a session never overlap.  At most one of them is
\* inside the lock, and while one is between its tts_start and its end or
\* failure, every tts_start, audio chunk and tts_end that reaches the
\* client is its own.
C14_SpeakExclusive ==
    /\ [](\A i, j \in SpeakIds :
            (Holding(i) /\ Holding(j)
               /\ speak_tasks[i].session = speak_tasks[j].session) => i = j)
    /\ [][\A i \in SpeakIds :
            Streaming(i) =>
                \A k \in 1..Len(SelectSeq(NewlySent(speak_tasks[i].session), IsSpeech)) :
                    SelectSeq(NewlySent(speak_tasks[i].session), IsSpeech)[k].speak = i]_vars

\* the reply of the turn is streaming, one chunk out of two sent, while the
\* announcement of the finished task waits for the lock
C14_Witness ==
    /\ Len(speak_tasks) = 2
    /\ speak_tasks[1].pc = "chunks" /\ speak_tasks[1].left = 1
    /\ speak_tasks[2].pc = "created"
    /\ speak_tasks[2].session = speak_tasks[1].session
    /\ tts_lock[Session] = 1
    /\ client_log[Session].last = <<StatusMsg("completed", <<"result">>)>>

\* a speak task leaves its exception handler in this step
LeavesHandler(i) ==
    /\ i <= Len(speak_tasks)
    /\ speak_tasks[i].pc = "except"
    /\ speak_tasks'[i].pc # "except"

\* C15 (amended): a speak that fails at any step enters its handler with
\* the lock held.  If the client connection is open the failure is reported
\* as one error status; if it is closed (the reason a start marker, chunk
\* or end marker cannot be sent) the report fails too and the task ends
\* with that exception.  In both cases the lock is released in the same
\* step, the lock is never held by a task that has left speak, and every
\* speak task ever created gets the lock and leaves speak.
C15_LockAlwaysReleased ==
    /\ [](\A s \in Sessions : tts_lock[s] # 0 => Holding(tts_lock[s]))
    /\ [][\A i \in SpeakIds :
            LeavesHandler(i) =>
                LET s == speak_tasks[i].session
                IN  /\ tts_lock'[s] = 0
                    /\ IF client_state[s] = "open"
                       THEN /\ NewlySent(s) = <<TTS_ERROR>>
                            /\ speak_tasks'[i].pc = "done"
                       ELSE /\ NewlySent(s) = <<>>
                            /\ speak_tasks'[i].pc = "died"]_vars
    /\ \A i \in SpeakIds : [](i <= Len(speak_tasks) => <>Finished(i))

\* the synthesis of the first speak failed and was reported; the second
\* speak, which waited, now holds the lock and streams
C15_Witness ==
    /\ Len(speak_tasks) = 2
    /\ speak_tasks[1].pc = "done"
    /\ speak_tasks[2].pc = "start"
    /\ tts_lock[Session] = 2
    /\ client_state[Session] = "open"
    /\ client_log[Session].last = <<TTS_ERROR>>

\* C15 (as claimed): every speak that fails, at whatever step, is reported
\* to the client as an error status when it leaves its handler.
C15_Original ==
    [][\A i \in SpeakIds :
          LeavesHandler(i) => NewlySent(speak_tasks[i].session) = <<TTS_ERROR>>]_vars

-----------------------------------------------------------------------------
(* An action the intent model returns for immediate execution *)

\* C21: when the intent model's reply carries an answer together with an
\* action to run at once, the turn yields a device action: the answer is
\* spoken and, in the same turn, the goal is sent to the device it names
\* when that device is registered, with no confirmation turn in between.
C21_ImmediateActionDispatched ==
    (turn.immediate # None /\ turn_pc = "idle") =>
        /\ turn.result = "device_action"
        /\ turn.action = turn.immediate
        /\ turn.speaks = <<turn.resolved>>
        /\ turn.ws_open =>
              \E i \in 1..Len(turn.sent) :
                  turn.sent[i] = Sent(turn.ws, "laptop_task", "",
                                      <<turn.immediate.goal>>)

-----------------------------------------------------------------------------
(* The acknowledgment of a bare wake phrase *)

\* the transcript of the last turn is empty once its wake phrase is stripped
BareWake ==
    /\ turn.n > 0
    /\ contains_wake_phrase(turn.transcript)
    /\ IsBlank(strip_wake_phrase(turn.transcript))

\* C22: when a transcript is empty once the wake phrase is stripped, the
\* reply is the fixed acknowledgment "Yes?", the history gains the user
\* transcript and "Yes?", the intent model is not called and nothing is sent
\* to a device.
C22_BareWakeAcknowledged ==
    BareWake =>
        /\ turn_pc = "idle"
        /\ turn.result = "simple"
        /\ turn.answer = YES_ANSWER
        /\ turn.sent = <<Sent("client", "final_transcript", "", turn.transcript),
                         Sent("client", "assistant_text", "", YES_ANSWER)>>
        /\ turn.speaks = <<YES_ANSWER>>
        /\ messages = turn.pre_messages \o
                         <<Message("user", turn.transcript),
                           Message("assistant", YES_ANSWER)>>
        /\ turn.resolver_calls = 0
        /\ LaptopTasks(turn.sent) = <<>>
        /\ turn.task = None

\* a bare wake phrase, with punctuation around it, is acknowledged while an
\* action is pending
C22_Witness ==
    /\ turn.transcript = <<"Hey", ",", "wink", ".">>
    /\ turn.pre_pending = PendingAction("laptop-1", "open chrome", "laptop")
    /\ turn.result = "simple"
    /\ turn.answer = YES_ANSWER

-----------------------------------------------------------------------------
(* The history after a turn *)

\* the last n messages of msgs, all of them if it has fewer
Newest(msgs, n) ==
    IF Len(msgs) > n THEN SubSeq(msgs, Len(msgs) - n + 1, Len(msgs)) ELSE msgs

\* C23: every turn that produces a reply (acknowledgment, confirmation,
\* denial, plain answer, proposal) appends exactly two messages to the
\* history, first the user message with the un-stripped transcript, then the
\* assistant message with the answer that is returned and sent; the history
\* is then what the retention bound keeps of it.  An ignored turn appends
\* none.
C23_TurnAppendsPair ==
    /\ Replied =>
          /\ turn.branch \in {"ack", "confirm", "deny", "resolve"}
          /\ AssistantTexts(turn.sent) =
                <<Sent("client", "assistant_text", "", turn.answer)>>
          /\ messages =
                Newest(turn.pre_messages \o
                          <<Message("user", turn.transcript),
                            Message("assistant", turn.answer)>>,
                       MAX_HISTORY_TURNS * 2)
    /\ (turn.n > 0 /\ turn.result = "ignored") => messages = turn.pre_messages

\* a proposal made with a wake phrase once the history is full: the pair is
\* appended and the oldest pair is dropped
C23_Witness ==
    /\ Replied
    /\ turn.proposed # None
    /\ turn.wake
    /\ turn.transcript # turn.clean
    /\ Len(turn.pre_messages) = MAX_HISTORY_TURNS * 2
    /\ messages[1] = turn.pre_messages[3]
    /\ messages[Len(messages) - 1] = Message("user", turn.transcript)

\* C24: at the end of every turn, also once trimming has started, the
\* history has even length and alternates user, assistant, user, assistant,
\* beginning with a user message: no turn is stored with one message only.
C24_HistoryAlternates ==
    /\ Len(messages) % 2 = 0
    /\ \A i \in 1..Len(messages) :
          messages[i].role = IF i % 2 = 1 THEN "user" ELSE "assistant"

\* a second turn has replied after the first one had filled the history
C24_Witness ==
    /\ turn.n = 2
    /\ Replied
    /\ Len(turn.pre_messages) = MAX_HISTORY_TURNS * 2
    /\ messages # turn.pre_messages
    /\ messages[1].role = "user"

-----------------------------------------------------------------------------
(* A proposal and the inactivity timeout *)

\* C25: a PendingAction never survives an inactivity timeout.  A pending
\* action belongs to an active conversation; when the next transcript
\* arrives more than CONVERSATION_TIMEOUT after the proposal, nothing is sent
\* to a device in that turn, and the turn that hands the transcript to
\* process_input clears the proposal, also when the transcript is a wake
\* phrase followed by a confirmation: what is pending afterwards can only
\* be what the intent model proposed in this very turn.  (A blank transcript
\* is dropped before the conversation is consulted: the proposal stays
\* timed out.)  A device action is emitted only for a proposal that was
\* within the window.
C25_StaleProposalCleared ==
    /\ pending_action # None => is_active
    /\ (turn.n > 0 /\ turn.pre_pending # None /\ TimedOut) =>
          /\ turn.result # "device_action"
          /\ LaptopTasks(turn.sent) = <<>>
          /\ turn.task = None
          /\ Handed => pending_action = turn.proposed
          /\ ~Handed => ~check_active(Conv, now)
    /\ turn.result = "device_action" =>
          /\ turn.pre_elapsed <= CONVERSATION_TIMEOUT
          /\ turn.action = turn.pre_pending

\* "Hey, wink, Yes please" arrives 31 seconds after the proposal: the
\* proposal is cleared and the confirmation goes to the intent model
C25_Witness ==
    /\ turn.transcript = <<"Hey", ",", "wink", ",", "Yes", "please">>
    /\ turn.pre_pending = PendingAction("laptop-1", "open chrome", "laptop")
    /\ TimedOut
    /\ turn.result = "await"
    /\ turn.resolver_input = <<"Yes", "please">>
    /\ pending_action = None
    /\ is_active

-----------------------------------------------------------------------------
(* The audio queue between the read loop and the sender loop *)

\* the chunk numbers of a sequence of payloads increase strictly
InPushOrder(q) ==
    \A i, j \in 1..Len(q) : i < j => q[i].chunk < q[j].chunk

\* C26: the audio queue is FIFO and loses only from the front.  The chunks
\* forwarded to the provider, followed by those still queued, are chunks
\* that were pushed, in push order; the sender takes the oldest chunk; a
\* push that finds the queue full evicts exactly the oldest chunk not yet
\* consumed, and a push that finds room evicts none.
C26_QueueFifo ==
    /\ [](/\ InPushOrder(forwarded \o audio_queue)
          /\ \A i \in 1..Len(forwarded \o audio_queue) :
                (forwarded \o audio_queue)[i].chunk \in 1..audio_chunk_count)
    /\ [][/\ forwarded' # forwarded =>
                /\ forwarded' = Append(forwarded, Head(audio_queue))
                /\ audio_queue' = Tail(audio_queue)
          /\ audio_chunk_count' # audio_chunk_count =>
                audio_queue' =
                    Append(IF Len(audio_queue) = AUDIO_QUEUE_MAXSIZE
                           THEN Tail(audio_queue) ELSE audio_queue,
                           frame'.payload)]_vars

\* chunk 1 was forwarded, chunk 2 was evicted by a push on the full queue,
\* and the queue holds chunks 3 to 52
C26_Witness ==
    /\ Len(forwarded) = 1
    /\ forwarded[1].chunk = 1
    /\ frame.result = "audio" /\ frame.was_full
    /\ Len(audio_queue) = AUDIO_QUEUE_MAXSIZE
    /\ audio_queue[1].chunk = 3
    /\ audio_queue[AUDIO_QUEUE_MAXSIZE].chunk = AUDIO_QUEUE_MAXSIZE + 2

-----------------------------------------------------------------------------
(* Declarations and binary frames *)

\* C27: a declaration is consumed by at most one binary frame.  Once a
\* binary frame has been handled, accepted or rejected for its length, no
\* declaration is pending; a binary frame that arrives while none is
\* pending is dropped: no status message, the latest video frame, the audio
\* queue and the chunk count unchanged, and still no declaration pending.
C27_DeclarationConsumedOnce ==
    [][\A length \in ByteLengths :
          RecvBytes(length) =>
            /\ pending' = None
            /\ read_pc' = "receive"
            /\ pending # None => frame'.result \in {"video", "audio", "mismatch"}
            /\ pending = None =>
                  /\ frame'.result = "dropped"
                  /\ frame'.sent = <<>>
                  /\ latest_jpeg_frame' = latest_jpeg_frame
                  /\ audio_queue' = audio_queue
                  /\ audio_chunk_count' = audio_chunk_count
                  /\ forwarded' = forwarded]_vars

\* a second binary frame after one accepted audio chunk: it is dropped and
\* the queue still holds the one chunk
C27_Witness ==
    /\ frame.kind = "bytes"
    /\ frame.result = "dropped"
    /\ frame.sent = <<>>
    /\ pending = None
    /\ audio_chunk_count = 1
    /\ Len(audio_queue) = 1
    /\ latest_jpeg_frame # None

-----------------------------------------------------------------------------
(* Malformed text envelopes *)

\* a text frame that is not a well-formed envelope: unparseable JSON, JSON
\* that is not an object, or a declaration whose byte_length is no number
Malformed(envelope) ==
    \/ ~envelope.json
    \/ ~envelope.object
    \/ envelope.type \in {"pcm_audio", "video_frame"} /\ ~envelope.numeric

\* C28: a malformed text envelope never ends the session.  For unparseable
\* JSON, and equally for JSON that is not an object or whose byte_length is
\* not a number, the frame is skipped: nothing is sent, the pending
\* declaration and the session state are unchanged, the relay keeps running
\* and the read loop receives the next frame on the open connection.
C28_MalformedEnvelopeSkipped ==
    [][\A envelope \in Envelopes :
          (RecvText(envelope) /\ Malformed(envelope)) =>
            /\ frame'.result = "skipped"
            /\ frame'.sent = <<>>
            /\ pending' = pending
            /\ latest_jpeg_frame' = latest_jpeg_frame
            /\ audio_queue' = audio_queue
            /\ audio_chunk_count' = audio_chunk_count
            /\ relay' = relay
            /\ provider_ws' = provider_ws
            /\ client_state'[Session] = "open"
            /\ read_pc' = "receive"]_vars

-----------------------------------------------------------------------------
(* Start and end markers *)

\* C29: start and end markers are paired.  A speak that has sent tts_start
\* and not yet its tts_end still holds the speech lock, so that its tts_end
\* comes before the lock is released and before any later tts_start, also
\* when its synthesis or a send fails midway.
C29_MarkersPaired ==
    \A i \in 1..Len(speak_tasks) :
        speak_tasks[i].marks = <<"tts_start">> =>
            tts_lock[speak_tasks[i].session] = i

-----------------------------------------------------------------------------
(* The registry and the connection that owns an entry *)

\* C30: a registry entry is removed only by the connection it maps to.  When
\* the handler of a device connection ends, a device id that is mapped to
\* another connection stays mapped to it (as when B registered the id A had
\* registered, and A disconnects afterwards), and the status callback
\* registered for that id stays in place.
C30_EntryRemovedByOwnerOnly ==
    [][\A c \in Conns :
          DeviceDisconnect(c) =>
            \A d \in DeviceIds :
                connected_devices[d] \notin {c, NoConn} =>
                    /\ connected_devices'[d] = connected_devices[d]
                    /\ device_status_callbacks'[d] = device_status_callbacks[d]]_vars

\* C31: after the handler of a device connection has ended, no device id in
\* the registry maps to that connection, also when the connection announced
\* more than one device id.
C31_NoEntryForClosedConnection ==
    \A c \in Conns, d \in DeviceIds :
        conn_state[c] \in {"closed", "aborted"} => connected_devices[d] # c

-----------------------------------------------------------------------------
(* A dispatch racing a device disconnect *)

\* the device of the last turn's action was gone when it was dispatched: its
\* entry deleted, or its connection lost with the entry still there
DeviceGone ==
    /\ turn.result = "device_action"
    /\ turn.ws = NoConn \/ ~turn.ws_open

\* C32: a dispatch that races a device disconnect fails safely.  Whether the
\* entry is already deleted or the send on the stale connection fails,
\* send_task_to_device returns failure, nothing is raised into the session
\* (on_final returns and the relay keeps running), nothing reaches a device,
\* and the session marks its TaskStatus failed and warns the client.
C32_RacingDispatchFailsSafely ==
    DeviceGone =>
        /\ ~turn.dispatch_ok
        /\ turn_pc = "idle"
        /\ relay = "running"
        /\ LaptopTasks(turn.sent) = <<>>
        /\ \A c \in Conns : bridge_inbox[c] = <<>>
        /\ turn.task.status = "failed"
        /\ turn.task.message = "Device not connected"
        /\ current_task[Session] = turn.task
        /\ turn.sent[Len(turn.sent)] =
              StatusMsg("warning", <<turn.action.device_id, "not connected">>)

\* laptop-1 is still in the registry, its connection is lost and the handler
\* has not run its finally block yet: the send fails
C32_Witness ==
    /\ DeviceGone
    /\ turn.ws # NoConn
    /\ connected_devices[turn.action.device_id] = turn.ws
    /\ conn_state[turn.ws] = "lost"
    /\ current_task[Session].status = "failed"

\* C33: a dispatch that returns failure leaves the status-callback registry
\* as it was before the call, on the unregistered-device path and on the
\* send-error path alike: no callback of the failed dispatch stays
\* registered.
C33_FailedDispatchLeavesCallbacks ==
    [][(turn' # turn /\ turn'.result = "device_action" /\ ~turn'.dispatch_ok) =>
          device_status_callbacks' = device_status_callbacks]_vars

-----------------------------------------------------------------------------
(* A device that disconnects while its task is active *)

\* the connection c goes away or its handler ends in this step
Disconnects(c) ==
    /\ conn_state[c] \in {"open", "lost"}
    /\ conn_state'[c] \in {"lost", "closed"}
    /\ conn_state'[c] # conn_state[c]

\* C34: when a device disconnects while its task is active, the dispatching
\* session's TaskStatus keeps its last-known goal, status and message: the
\* disconnect changes no TaskStatus, creates no speak task and sends nothing
\* to a client, and it removes the status callback of the device; a callback
\* of a session is registered only by a dispatch of that session, and a
\* TaskStatus changes only by a dispatch of its session or by a status
\* update delivered to the callback registered for a connected device.  So
\* the value changes next only when a new action is dispatched.
C34_DisconnectKeepsTaskStatus ==
    /\ [][\A c \in Conns :
            Disconnects(c) =>
              /\ current_task' = current_task
              /\ speak_tasks' = speak_tasks
              /\ client_log' = client_log
              /\ (conn_state'[c] = "closed" /\ conn_device[c] # NoDevice) =>
                    device_status_callbacks'[conn_device[c]] = NoCallback]_vars
    /\ [][\A s \in Sessions :
            /\ \A d \in DeviceIds :
                  (device_status_callbacks'[d] = s /\ device_status_callbacks[d] # s) =>
                  /\ nturns' = nturns + 1
                  /\ current_task'[s] # None
                  /\ current_task'[s].device_id = d
                  /\ current_task'[s].status \in {"queued", "failed"}
            /\ current_task'[s] # current_task[s] =>
                  \/ nturns' = nturns + 1
                  \/ /\ status_event'.n = status_event.n + 1
                     /\ \E d \in DeviceIds :
                           /\ device_status_callbacks[d] = s
                           /\ connected_devices[d] # NoConn
                           /\ conn_state[connected_devices[d]] = "open"]_vars

\* the bridge reported "started", then its connection went away and the
\* handler ended: the session still holds the started task
C34_Witness ==
    /\ current_task["s1"] # None
    /\ current_task["s1"].status = "started"
    /\ status_event.n = 1
    /\ conn_state["c1"] = "closed"
    /\ connected_devices["laptop-1"] = NoConn
    /\ device_status_callbacks["laptop-1"] = NoCallback

-----------------------------------------------------------------------------
(* The relay in steps: the provider's events, the receiver and sender loops, *)
(* asyncio.wait, the except clause and the completion callback               *)
(* (main.py:185-234, 278-301, 346-358).                                      *)

MaxEvents == 3        \* events the provider sends in one run of SpecRelay
MaxRelayTurns == 3    \* final transcripts delivered in one run of SpecRelay
MaxRelayChunks == 1   \* audio chunks accepted in one run of SpecRelay

DeltaEvent(delta) == [type |-> "delta", text |-> <<delta>>]
CompletedEvent(transcript) == [type |-> "completed", text |-> transcript]

\* The transcription events of the provider: deltas of one word and
\* completed transcripts that are put to the intent model
ProviderEvents ==
    { DeltaEvent(d) : d \in {"hey", "wink"} }
    \cup { CompletedEvent(t) :
               t \in { <<"hey", "wink", ",", "what's", "two", "plus", "two">>,
                       <<"hey", "wink", ",", "no">> } }

\* the event the receiver loop takes next
NextEvent == provider_events[events_read + 1]

\* `async for raw in ws` (main.py:192) can hand the next event to the loop
\* body: the loop is not inside a handler it awaits (main.py:207, 211)
CanDeliver ==
    /\ relay = "running"
    /\ receiver_task = "running"
    /\ provider_ws # "broken"
    /\ turn_pc = "idle"
    /\ events_read < Len(provider_events)

\* sender() can forward a chunk (main.py:187-189)
CanForward ==
    /\ relay = "running"
    /\ sender_task = "running"
    /\ provider_ws = "open"
    /\ audio_queue # <<>>

\* on_delta keeping only the latest delta
OnDeltaReplaces(text, delta) == delta

\* on_delta (main.py:278-281): the text it accumulates and sends
on_delta(text, delta) == text \o delta

\* the provider sends an event
ProviderEmit(event) ==
    /\ provider_ws = "open"
    /\ Len(provider_events) < MaxEvents
    /\ provider_events' = Append(provider_events, event)
    /\ UNCHANGED <<clientVars, loopVars, bridgeVars, convVars, frameVars,
                   devVars, partial_text, current_task, now, relay, turn_pc,
                   speak_tasks, turn, appended, nturns, nappends, httpVars, events_read,
                   transcript_log>>

\* the receiver loop takes a delta event (main.py:206-208)
ReceiverDelta ==
    /\ CanDeliver
    /\ NextEvent.type = "delta"
    /\ events_read' = events_read + 1
    /\ partial_text' = on_delta(partial_text, NextEvent.text)
    /\ transcript_log' = Append(transcript_log,
           Sent("client", "partial_transcript", "", partial_text'))
    /\ UNCHANGED <<clientVars, loopVars, bridgeVars, convVars, frameVars,
                   devVars, current_task, now, relay, turn_pc, speak_tasks,
                   turn, appended, nturns, nappends, httpVars, provider_events>>

\* the receiver loop takes a completed event and awaits on_final
\* (main.py:210-212)
ReceiverFinal ==
    /\ CanDeliver
    /\ NextEvent.type = "completed"
    /\ events_read' = events_read + 1
    /\ on_final(NextEvent.text, MaxRelayTurns)
    /\ transcript_log' = Append(transcript_log,
           Sent("client", "final_transcript", "", NextEvent.text))
    /\ UNCHANGED <<provider_events, httpVars>>

\* the provider closes the connection with a close handshake
ProviderCloses ==
    /\ provider_ws = "open"
    /\ provider_ws' = "closed"
    /\ UNCHANGED <<clientVars, bridgeVars, convVars, frameVars, devVars,
                   sender_task, receiver_task, partial_text, current_task, now,
                   relay, turn_pc, speak_tasks, turn, appended, nturns,
                   nappends, eventVars, httpVars>>

\* the provider connection fails
ProviderBreaks ==
    /\ provider_ws = "open"
    /\ provider_ws' = "broken"
    /\ UNCHANGED <<clientVars, bridgeVars, convVars, frameVars, devVars,
                   sender_task, receiver_task, partial_text, current_task, now,
                   relay, turn_pc, speak_tasks, turn, appended, nturns,
                   nappends, eventVars, httpVars>>

\* the iteration of receiver() ends without an exception (main.py:192): the
\* connection was closed and the events before the close have been taken
ReceiverEnds ==
    /\ turn_pc = "idle"
    /\ events_read = Len(provider_events) \/ relay # "running"
    /\ ReceiverAfterClose

\* the iteration of receiver() raises ConnectionClosedError (main.py:192)
ReceiverRaises ==
    /\ receiver_task = "running"
    /\ provider_ws = "broken"
    /\ turn_pc = "idle"
    /\ receiver_task' = "failed"
    /\ UNCHANGED <<clientVars, bridgeVars, convVars, frameVars, devVars,
                   sender_task, provider_ws, partial_text, current_task, now,
                   relay, turn_pc, speak_tasks, turn, appended, nturns,
                   nappends, eventVars, httpVars>>

\* the client sends the payload it has declared (main.py:381-405)
RecvDeclared(length) ==
    /\ pending # None
    /\ RecvBytes(length)

\* sender() forwards a chunk on the open connection (main.py:187-189)
SenderForward ==
    /\ CanForward
    /\ SenderGet

\* asyncio.wait(..., return_when=FIRST_EXCEPTION) returns because a loop has
\* raised; the loop still running is cancelled, the exception is raised
\* again and leaves `async with`, which closes the connection
\* (main.py:221-230)
WaitReturns ==
    /\ relay = "running"
    /\ "failed" \in {sender_task, receiver_task}
    /\ relay' = "except"
    /\ sender_task' = IF sender_task = "running" THEN "cancelled" ELSE sender_task
    /\ receiver_task' = IF receiver_task = "running" THEN "cancelled"
                        ELSE receiver_task
    /\ provider_ws' = IF provider_ws = "open" THEN "closed" ELSE provider_ws
    /\ UNCHANGED <<clientVars, bridgeVars, convVars, frameVars, devVars,
                   partial_text, current_task, now, turn_pc, speak_tasks, turn,
                   appended, nturns, nappends, eventVars, httpVars>>

\* the except clause raising again without a report
WorkerReportsNothing == <<>>

\* what the except clause sends before it raises again (main.py:232-234)
worker_report == <<StatusMsg("error", <<"Realtime worker crashed">>)>>

\* the except clause of the worker (main.py:232-234); on a closed client
\* socket the send raises and that exception ends the task instead
WorkerReports ==
    /\ relay = "except"
    /\ relay' = "crashed"
    /\ client_log' = IF client_state[Session] = "open"
                     THEN [client_log EXCEPT ![Session] = logged(@, worker_report)]
                     ELSE client_log
    /\ UNCHANGED <<client_state, tts_lock, loopVars, bridgeVars, convVars,
                   frameVars, devVars, partial_text, current_task, now,
                   turn_pc, speak_tasks, turn, appended, nturns, nappends,
                   eventVars, httpVars>>

\* _task_done (main.py:348-351) runs for the task that ended with an
\* exception, and the send_status task it creates runs
TaskDone ==
    /\ relay = "crashed"
    /\ relay' = "observed"
    /\ client_log' = IF client_state[Session] = "open"
                     THEN [client_log EXCEPT ![Session] = logged(@,
                              <<StatusMsg("error", <<"Transcription task crashed">>)>>)]
                     ELSE client_log
    /\ UNCHANGED <<client_state, tts_lock, loopVars, bridgeVars, convVars,
                   frameVars, devVars, partial_text, current_task, now,
                   turn_pc, speak_tasks, turn, appended, nturns, nappends,
                   eventVars, httpVars>>

\* the replies of the intent model in SpecRelay
RelayOutcomes == { o \in ResolverOutcomes : o.kind = "answer" }

NextRelay ==
    \/ \E event \in ProviderEvents : ProviderEmit(event)
    \/ ReceiverDelta
    \/ ReceiverFinal
    \/ \E outcome \in RelayOutcomes : ResolverReturn(outcome)
    \/ \E envelope \in AudioEnvelopes : RecvTextUpTo(envelope, MaxRelayChunks)
    \/ \E length \in {l \in ByteLengths : l % 2 = 0} : RecvDeclared(length)
    \/ SenderForward
    \/ ProviderCloses
    \/ ProviderBreaks
    \/ ReceiverEnds
    \/ ReceiverRaises
    \/ SenderAfterClose
    \/ WaitReturns
    \/ WorkerReports
    \/ TaskDone
    \/ SessionDisconnect(Session)

\* the steps of the receiver task but for the delivery of a final
\* transcript, those of the sender task, and those of the worker task with
\* its completion callback
ReceiverStep == ReceiverDelta \/ ReceiverEnds \/ ReceiverRaises
SenderStep == SenderForward \/ SenderAfterClose
WorkerStep == WaitReturns \/ WorkerReports \/ TaskDone

\* The loops and the worker are tasks of the event loop: each runs when it
\* can.  The client, the provider and the intent model are not obliged to
\* do anything, and nothing is assumed about when a final transcript is
\* taken.
SpecRelay ==
    /\ Init /\ [][NextRelay]_vars
    /\ WF_vars(ReceiverStep) /\ WF_vars(SenderStep) /\ WF_vars(WorkerStep)

-----------------------------------------------------------------------------
(* A fatal error of a relay loop *)

\* a loop of the relay has raised and the worker has not yet noticed
LoopRaised == relay = "running" /\ "failed" \in {sender_task, receiver_task}

\* C35: when the sender or the receiver loop raises a fatal error, the other
\* loop is stopped (no loop runs once the worker has left asyncio.wait with
\* the error), the worker task ends only through its except clause, which
\* sends the error status "Realtime worker crashed" to the connected client
\* before the task ends, and the failure is then observed by the completion
\* callback of the session, unless the client disconnects first and the
\* session cancels the relay.
C35_FatalErrorReported ==
    /\ [](relay \in {"except", "crashed", "observed"} =>
              sender_task # "running" /\ receiver_task # "running")
    /\ [][(relay' = "crashed" /\ relay # "crashed") =>
              /\ relay = "except"
              /\ client_state[Session] = "open" =>
                    client_log'[Session] =
                        logged(client_log[Session],
                               <<StatusMsg("error", <<"Realtime worker crashed">>)>>)]_vars
    /\ LoopRaised ~> (relay = "observed" \/ relay = "cancelled")

\* the sender raised on the closed provider connection while the receiver
\* was running; the client, still connected, got both reports
C35_Witness ==
    /\ relay = "observed"
    /\ sender_task = "failed"
    /\ receiver_task = "cancelled"
    /\ client_state[Session] = "open"
    /\ client_log[Session].n = 2
    /\ client_log[Session].last =
           <<StatusMsg("error", <<"Transcription task crashed">>)>>

-----------------------------------------------------------------------------
(* The receiver loop ending without an exception *)

\* C36 (as claimed): the relay never goes on with only one of its loops:
\* once the receiver loop has ended because the provider closed the
\* connection, the relay leaves asyncio.wait (where it stops the sender
\* loop), whether or not further audio arrives.
C36_RelayEndsWithReceiver ==
    (receiver_task = "ended" /\ relay = "running") ~> (relay # "running")

-----------------------------------------------------------------------------
(* The order of the transcript events *)

RECURSIVE Accumulated(_, _)
\* the deltas among the first n events of the provider that follow the last
\* completed transcript among them, concatenated
Accumulated(events, n) ==
    IF n = 0 \/ events[n].type = "completed" THEN <<>>
    ELSE Accumulated(events, n - 1) \o events[n].text

IsCompleted(event) == event.type = "completed"
IsUser(message) == message.role = "user"

\* the completed transcripts among the events the receiver has taken
TakenFinals == SelectSeq(SubSeq(provider_events, 1, events_read), IsCompleted)

\* C37: the transcript events reach the client in the order of the provider:
\* the i-th transcript message answers the i-th event; a partial_transcript
\* carries the concatenation of the deltas since the last completed
\* transcript, a final_transcript carries the completed transcript and
\* resets the accumulation; a final is taken only when the one before has
\* been processed to its end, each final is one turn, and the user messages
\* of the history are the finals in the order of their arrival.
C37_TranscriptsInProviderOrder ==
    /\ Len(transcript_log) = events_read
    /\ \A i \in 1..events_read :
          transcript_log[i] =
              IF provider_events[i].type = "delta"
              THEN Sent("client", "partial_transcript", "",
                        Accumulated(provider_events, i))
              ELSE Sent("client", "final_transcript", "", provider_events[i].text)
    /\ partial_text = Accumulated(provider_events, events_read)
    /\ nturns = Len(TakenFinals)
    /\ turn_pc = "resolving" =>
          /\ provider_events[events_read].type = "completed"
          /\ turn.transcript = provider_events[events_read].text
    /\ LET users == SelectSeq(appended, IsUser)
       IN  /\ Len(users) = IF turn_pc = "resolving" THEN nturns - 1 ELSE nturns
           /\ \A i \in 1..Len(users) : users[i].content = TakenFinals[i].text

\* a delta, a final and its turn, then a second, different final whose
\* turn has ended too
C37_Witness ==
    /\ events_read = 3
    /\ transcript_log[1].type = "partial_transcript"
    /\ provider_events[2].type = "completed"
    /\ provider_events[3].type = "completed"
    /\ provider_events[2].text # provider_events[3].text
    /\ turn_pc = "idle"
    /\ Len(SelectSeq(appended, IsUser)) = 2

-----------------------------------------------------------------------------
(* What goes on while a turn awaits the intent model or speech is made *)

\* a speak task has been created and has not ended
Speaking == \E i \in 1..Len(speak_tasks) : speak_tasks[i].pc \notin {"done", "died"}

\* C38 (as claimed): no suspension blocks the other activities: while the
\* relay runs and the intent model's reply or a speech synthesis is awaited,
\* the read loop is at its receive, the sender can forward a queued chunk,
\* and the receiver can deliver a delta the provider has sent as a partial
\* transcript.
C38_NothingBlocked ==
    (relay = "running" /\ (turn_pc = "resolving" \/ Speaking)) =>
        /\ read_pc = "receive"
        /\ (sender_task = "running" /\ provider_ws = "open" /\ audio_queue # <<>>)
              => CanForward
        /\ (/\ receiver_task = "running"
            /\ provider_ws = "open"
            /\ events_read < Len(provider_events)
            /\ NextEvent.type = "delta") => CanDeliver

-----------------------------------------------------------------------------
(* The course of a TaskStatus *)

\* the order of the statuses of a task
StatusRank(status) ==
    CASE status = "queued" -> 0
      [] status = "started" -> 1
      [] status = "in_progress" -> 2
      [] OTHER -> 3

\* C39 (as claimed): after its dispatch, the TaskStatus of a session moves
\* only forward and only through a status event that a device emitted for
\* the goal of that very task; once completed or failed it does not change
\* again until the next dispatch, also when a second task was dispatched
\* while the first was still running.
C39_TaskStatusOnlyForward ==
    [][\A s \in Sessions :
          (nturns' = nturns /\ current_task[s] # None
                            /\ current_task'[s] # current_task[s]) =>
             /\ current_task'[s] # None
             /\ current_task[s].status \notin {"completed", "failed"}
             /\ StatusRank(current_task'[s].status) >= StatusRank(current_task[s].status)
             /\ \E c \in Conns :
                   /\ bridge_inbox[c] # <<>>
                   /\ Head(bridge_inbox[c]).goal = current_task[s].goal]_vars

-----------------------------------------------------------------------------
(* The HTTP device bridge (device_bridge/server.py:40-69).  A request is     *)
(* known by its number, its place in http_reply.                             *)

MaxRequests == 3     \* POST /task requests in one run of SpecBridge

\* the goals the requests carry; TaskRequest.goal is any string
HttpGoals == {"open chrome", "play music", ""}

\* a value of current_task that is a string
Str(text) == [kind |-> "str", text |-> text]

\* `if current_task:` (server.py:61): None and the empty string are false
Truthy(value) == value # None /\ value # Str("")

\* the reply of create_task; unfinished is the number of goals accepted
\* and not finished when the request arrived
Reply(goal, status, unfinished) ==
    [goal |-> goal, status |-> status, unfinished |-> unfinished]

\* create_task (server.py:57-67).  The background task runs run_task in
\* the thread pool after the response has been sent.
CreateTask(goal) ==
    /\ Len(http_reply) < MaxRequests
    /\ LET request == Len(http_reply) + 1
           unfinished == Cardinality(http_background \cup http_running)
       IN  IF Truthy(http_current_task)
           THEN /\ http_reply' = Append(http_reply, Reply(goal, "busy", unfinished))
                /\ UNCHANGED http_background
           ELSE /\ http_reply' = Append(http_reply, Reply(goal, "started", unfinished))
                /\ http_background' = http_background \cup {request}
    /\ UNCHANGED <<http_current_task, http_running>>
    /\ UNCHANGED <<clientVars, loopVars, bridgeVars, convVars, frameVars,
                   devVars, partial_text, current_task, now, relay, turn_pc,
                   speak_tasks, turn, appended, nturns, nappends, eventVars>>

\* run_task begins in a thread (server.py:42-45)
RunTaskStart(request) ==
    /\ request \in http_background
    /\ http_background' = http_background \ {request}
    /\ http_running' = http_running \cup {request}
    /\ http_current_task' = Str(http_reply[request].goal)
    /\ UNCHANGED http_reply
    /\ UNCHANGED <<clientVars, loopVars, bridgeVars, convVars, frameVars,
                   devVars, partial_text, current_task, now, relay, turn_pc,
                   speak_tasks, turn, appended, nturns, nappends, eventVars>>

\* execute_goal returns or raises and the finally block runs
\* (server.py:50-56)
RunTaskEnd(request) ==
    /\ request \in http_running
    /\ http_running' = http_running \ {request}
    /\ http_current_task' = None
    /\ UNCHANGED <<http_background, http_reply>>
    /\ UNCHANGED <<clientVars, loopVars, bridgeVars, convVars, frameVars,
                   devVars, partial_text, current_task, now, relay, turn_pc,
                   speak_tasks, turn, appended, nturns, nappends, eventVars>>

NextBridge ==
    \/ \E goal \in HttpGoals : CreateTask(goal)
    \/ \E request \in 1..MaxRequests : RunTaskStart(request)
    \/ \E request \in 1..MaxRequests : RunTaskEnd(request)

SpecBridge == Init /\ [][NextBridge]_vars

\* C40 (as claimed): the HTTP bridge has at most one goal at a time: a
\* POST /task that arrives while a goal is accepted and not finished is
\* answered "busy", and no two goals execute at once.
C40_OneGoalAtATime ==
    /\ Cardinality(http_running) <= 1
    /\ \A request \in 1..Len(http_reply) :
          http_reply[request].unfinished > 0 => http_reply[request].status = "busy"

=============================================================================
